---- MODULE Spec2Model ----
(***************************************************************************)
(* Memex-Neural: the ingestion -> indexing -> hybrid-retrieval engine.     *)
(*                                                                         *)
(* The module holds these state machines over one set of variables:       *)
(*   SpecBus      the EventBus alone, with abstract handlers               *)
(*   SpecPipeline upload -> CoreArchiverPlugin -> CoreVectorizerPlugin     *)
(*   SpecIndex    indexing passes, refine-proposal approvals               *)
(*   SpecStore    indexing, embedding, overwriting and deleting archives   *)
(*   SpecSearch   RetrievalAgent.hybrid_search                             *)
(*   SpecFilter   hybrid_search with a time range                          *)
(*   SpecRecall   hybrid_search at the recall widths of top_k 1, 9, 10     *)
(*   SpecChunk    one indexing pass over texts of many lengths             *)
(*   SpecOwner    hybrid_search over documents of two users                *)
(*   SpecRerank   the RerankService singleton under a sequence of calls    *)
(*   SpecPipelineLive  SpecPipeline with weak fairness of its steps        *)
(* Each specification leaves the variables of the others unchanged.        *)
(***************************************************************************)
EXTENDS Integers, Sequences, FiniteSets, TLC

VARIABLES
    subscribers,   \* EventBus._subscribers: event name -> list of handlers
    pub,           \* the publish call of SpecBus that is in flight or ended last,
                   \* and the subscribe or clear call made last
    docs,          \* table archives: document id -> committed ArchiveRecord row
    chunks,        \* table vector_nodes: the committed VectorNode rows
    fs,            \* the storage root: the files present, each with its content
    upl,           \* per upload: the process_file_background thread and its archiver pass
    ipass,         \* per indexing pass: CoreVectorizerPlugin._process_vectorization
    proposals,     \* table proposals: the refine_archive proposals
    eventLog,      \* the ARCHIVE_COMPLETED events published so far
    srch,          \* the hybrid_search call: its inputs, its stage, its result
    reranker       \* the RerankService singleton and the rerank call in progress

vars == <<subscribers, pub, docs, chunks, fs, upl, ipass, proposals, eventLog, srch,
          reranker>>

\* Bounds of the model.
MaxDocs == 2      \* documents (and uploads: one upload per document)
MaxPasses == 2    \* indexing passes (at least MaxDocs)
MaxProposals == 1 \* refine_archive proposals
MaxNodes == 2     \* suggested nodes of one proposal
MaxTopK == 2      \* top_k of a search
MaxCalls == 5     \* rerank calls of one process

DocIds == 1..MaxDocs
PassIds == 1..MaxPasses
ProposalIds == 1..MaxProposals

----------------------------------------------------------------------------
(* EventBus (src/core/events.py)                                           *)

\* Event names of src/core/event_types.py that the pipeline uses.
FILE_UPLOADED == "FILE_UPLOADED"
ARCHIVE_COMPLETED == "ARCHIVE_COMPLETED"
EventNames == {FILE_UPLOADED, ARCHIVE_COMPLETED}

\* Abstract handlers of SpecBus. h1 and h3 are different callables that carry
\* the same __name__; h2 has a name of its own.
BusHandlers == {"h1", "h2", "h3"}

\* handler.__name__
HandlerName(h) ==
    CASE h = "h1" -> "handle_a"
      [] h = "h2" -> "handle_b"
      [] h = "h3" -> "handle_a"
      [] h = "archiver" -> "handle_file_uploaded"
      [] h = "example" -> "handle_file_uploaded"
      [] h = "vectorizer" -> "handle_archive_completed"

\* self._subscribers.get(event_name, []) -- the key is absent until the first
\* subscribe for it.
HandlersOf(subs, ev) == IF ev \in DOMAIN subs THEN subs[ev] ELSE <<>>

SeqRange(s) == {s[i] : i \in 1..Len(s)}

\* A mutant of SubscribeResult: every handler is appended.
SubscribeAlways(subs, ev, h) ==
    [e \in (DOMAIN subs) \cup {ev} |->
       IF e = ev THEN Append(HandlersOf(subs, ev), h) ELSE subs[e]]

\* EventBus.subscribe: a handler whose __name__ is already among the handlers
\* registered for the event is skipped, otherwise it is appended.
SubscribeResult(subs, ev, h) ==
    LET cur == HandlersOf(subs, ev) IN
    LET existing_handlers == {HandlerName(cur[i]) : i \in 1..Len(cur)} IN
    LET new == IF HandlerName(h) \in existing_handlers THEN cur ELSE Append(cur, h) IN
    [e \in (DOMAIN subs) \cup {ev} |-> IF e = ev THEN new ELSE subs[e]]

\* A mutant of ClearResult: nothing is removed.
ClearNothing(subs) == subs

\* EventBus.clear_subscribers: self._subscribers.clear()
ClearResult(subs) == [e \in {} |-> <<>>]

\* A mutant of DispatchList: only the first registered handler is dispatched.
DispatchFirstOnly(subs, ev) ==
    LET hs == HandlersOf(subs, ev) IN IF hs = <<>> THEN <<>> ELSE <<hs[1]>>

\* EventBus.publish, lines 54-64: the handlers a publish builds a task for.
DispatchList(subs, ev) == HandlersOf(subs, ev)

\* EventBus._execute_handler: the outcome of the wrapper coroutine, given the
\* outcome of the handler ("return" or "raise" of an Exception).
ExecuteHandlerResult(outcome) == IF outcome = "raise" THEN "caught" ELSE "ok"

\* asyncio.gather(*tasks, return_exceptions=True): an exception of a task is
\* returned as a result and never raised to the awaiting publish.
return_exceptions == TRUE
GatherRaises(results) == ~return_exceptions /\ "raise" \in results

HandlerOutcomes == {"return", "raise"}

\* A mutant of GatherDone: the gather is over when the first task is.
GatherFirstDone(tasks) == \E i \in 1..Len(tasks) : tasks[i].result # "pending"

\* await asyncio.gather(*tasks, ...), line 68: the await is over when every
\* task is.
GatherDone(tasks) == \A i \in 1..Len(tasks) : tasks[i].result # "pending"

\* The subscribe or clear call made last (last), and the one that was the last
\* when the publish began (before); repeat tells whether a subscribe repeats
\* the call made just before it (the same handler for the same event), found
\* whether a clear found a handler registered. The two fields only record
\* what was called.
NoCall == [op |-> "none", event |-> FILE_UPLOADED, handler |-> "h1",
           repeat |-> FALSE, found |-> FALSE]

NoPub == [phase |-> "none", event |-> FILE_UPLOADED, registered |-> <<>>, tasks |-> <<>>,
          last |-> NoCall, before |-> NoCall]

subscribe(ev, h) ==
    /\ subscribers' = SubscribeResult(subscribers, ev, h)
    /\ pub' = [pub EXCEPT !.last =
                 [NoCall EXCEPT !.op = "subscribe", !.event = ev, !.handler = h,
                                !.repeat = /\ pub.last.op = "subscribe"
                                           /\ pub.last.event = ev
                                           /\ pub.last.handler = h]]
    /\ UNCHANGED <<docs, chunks, fs, upl, ipass, proposals, eventLog, srch, reranker>>

clear_subscribers ==
    /\ subscribers' = ClearResult(subscribers)
    /\ pub' = [pub EXCEPT !.last =
                 [NoCall EXCEPT !.op = "clear",
                                !.found = \E ev \in EventNames : HandlersOf(subscribers, ev) # <<>>]]
    /\ UNCHANGED <<docs, chunks, fs, upl, ipass, proposals, eventLog, srch, reranker>>

\* publish(event), up to the await of gather: a task per handler.
publish(ev) ==
    /\ pub.phase # "running"
    /\ LET hs == DispatchList(subscribers, ev) IN
       pub' = [phase |-> IF hs = <<>> THEN "returned" ELSE "running",
               event |-> ev,
               registered |-> HandlersOf(subscribers, ev),
               tasks |-> [i \in 1..Len(hs) |->
                            [handler |-> hs[i], outcome |-> "pending", result |-> "pending"]],
               last |-> pub.last, before |-> pub.last]
    /\ UNCHANGED <<subscribers, docs, chunks, fs, upl, ipass, proposals, eventLog, srch, reranker>>

\* One task of the gather runs its handler to the end.
execute_handler(i, outcome) ==
    /\ pub.phase = "running"
    /\ i \in 1..Len(pub.tasks)
    /\ pub.tasks[i].outcome = "pending"
    /\ pub' = [pub EXCEPT !.tasks[i].outcome = outcome,
                          !.tasks[i].result = ExecuteHandlerResult(outcome)]
    /\ UNCHANGED <<subscribers, docs, chunks, fs, upl, ipass, proposals, eventLog, srch, reranker>>

\* gather completes when every task has: publish returns (or raises).
publish_return ==
    /\ pub.phase = "running"
    /\ GatherDone(pub.tasks)
    /\ pub' = [pub EXCEPT !.phase =
                 IF GatherRaises({pub.tasks[i].result : i \in 1..Len(pub.tasks)})
                 THEN "raised" ELSE "returned"]
    /\ UNCHANGED <<subscribers, docs, chunks, fs, upl, ipass, proposals, eventLog, srch, reranker>>

----------------------------------------------------------------------------
(* The store: tables archives and vector_nodes                             *)

\* ProcessingStatus values.
PENDING == "PENDING"
PROCESSING == "PROCESSING"
COMPLETED == "COMPLETED"
FAILED == "FAILED"

NoPath == [dir |-> "none", ym |-> "", name |-> <<>>, n |-> 0]

\* The row the upload endpoint inserts (endpoints.py, upload_file): status
\* PENDING, the uploaded name, the file in the owner's _INBOX. A file name is
\* a sequence of its parts; the name of the first upload has no date prefix,
\* the names of the others begin with a date.
UploadName(u) == IF u = 1 THEN <<"upload", u>> ELSE <<"2023-11-15", "upload", u>>
InboxPath(u) == [dir |-> "_INBOX", ym |-> "", name |-> UploadName(u), n |-> 0]
NewRecord(u) ==
    [status |-> PENDING, error |-> "None", filename |-> InboxPath(u),
     category |-> "unclassified", summary |-> "", full_text |-> "None",
     relative_path |-> InboxPath(u), semantic_date |-> "None",
     embedding |-> "None", is_vectorized |-> 0]

\* Rows of vector_nodes: a foreign key to the parent archive and a chunk
\* index; src tells the writer of the row apart (rows have their own ids).
ChunksOf(rows, d) == {r \in rows : r.parent = d}

\* A document id whose row has been deleted from archives.
NoRecord == [NewRecord(0) EXCEPT !.status = "absent", !.filename = NoPath,
                                 !.category = "", !.relative_path = NoPath]
RowExists(table, d) == table[d].status # "absent"

\* A mutant of ForeignKeyAccepts: the database does not enforce the key.
ForeignKeyIgnored(table, rows) == TRUE

\* The foreign key of vector_nodes to archives: rows are accepted at a commit
\* only when the archive each of them names exists.
ForeignKeyAccepts(table, rows) == \A r \in rows : RowExists(table, r.parent)

----------------------------------------------------------------------------
(* CoreVectorizerPlugin (src/plugins/core_vectorizer.py)                   *)

CHUNK_SIZE == 2000
OVERLAP == 200
MIN_CHUNK_LEN == 10
COARSE_LEN == 2000

\* len(text_to_embed): the metadata header (title, type, category, tags,
\* summary) is never empty; the body is full_text, else summary, else filename.
HeaderLen == 100
\* The texts "t1900" ... "t5301" are full texts of that many characters.
BodyLen(rec) ==
    IF rec.full_text = "long" THEN 4900
    ELSE IF rec.full_text = "short" THEN 1400
    ELSE IF rec.full_text = "t1900" THEN 1900
    ELSE IF rec.full_text = "t1901" THEN 1901
    ELSE IF rec.full_text = "t3505" THEN 3505
    ELSE IF rec.full_text = "t3600" THEN 3600
    ELSE IF rec.full_text = "t5300" THEN 5300
    ELSE IF rec.full_text = "t5301" THEN 5301
    ELSE IF rec.summary # "" THEN 300
    ELSE 20
EmbeddableLen(rec) == HeaderLen + BodyLen(rec)

\* The chunking loop of _process_vectorization: the [start, end) windows.
RECURSIVE Windows(_, _)
Windows(start, L) ==
    IF start < L
    THEN <<[start |-> start, end |-> IF start + CHUNK_SIZE < L THEN start + CHUNK_SIZE ELSE L]>>
         \o Windows(start + (CHUNK_SIZE - OVERLAP), L)
    ELSE <<>>

\* A mutant of ChunkWindows: the text is never split.
ChunkWindowsWhole(L) == <<[start |-> 0, end |-> L]>>

\* Lines 113-125: the list chunks, each chunk by its window of the text.
ChunkWindows(L) ==
    IF L > CHUNK_SIZE THEN Windows(0, L) ELSE <<[start |-> 0, end |-> L]>>

\* enumerate(chunks) counts from 0.
NumChunks(L) == Len(ChunkWindows(L))
ChunkLen(L, i) == ChunkWindows(L)[i + 1].end - ChunkWindows(L)[i + 1].start

EmbedOutcomes == {"vec", "empty", "raise"}

IdlePass == [pc |-> "idle", doc |-> 0, L |-> 0, coarse |-> FALSE,
             deleted |-> {}, chunks |-> <<>>, next |-> 0, nodes |-> {}]

\* A pass that has ended: the session is closed, its locals are gone.
EndedPass(pc, d) == [IdlePass EXCEPT !.pc = pc, !.doc = d]

PassRows(p) ==
    {[parent |-> ipass[p].doc, chunk_index |-> i, src |-> <<"pass", p, 0>>] : i \in ipass[p].nodes}

\* Lines 104-107: the rows that the DELETE of the pass removes.
CleanupRows(rows, d) == ChunksOf(rows, d)

RollbackKeepsDelete(rows, deleted) == rows \ deleted

\* Lines 156-158: db.rollback() in the except branch of the pass. The DELETE
\* of the cleanup ran in the transaction of the pass (sessions do not
\* autocommit, database.py line 26) and is undone with it; the new nodes and
\* the embedding set on the record were never written.
Rollback(rows, deleted) == rows

\* _process_vectorization, lines 42-75: the session is opened, the record is
\* loaded and the text to embed is built. by is the caller: the handler of
\* ARCHIVE_COMPLETED or scripts/batch_reprocess_images.py.
idx_load(p, d) ==
    /\ ipass[p].pc = "start"
    /\ ipass[p].doc = d
    /\ ipass' = [ipass EXCEPT ![p] =
         IF RowExists(docs, d)
         THEN [@ EXCEPT !.pc = "coarse", !.L = EmbeddableLen(docs[d])]
         ELSE EndedPass("absent", d)]
    /\ UNCHANGED <<subscribers, pub, docs, chunks, fs, upl, proposals, eventLog, srch, reranker>>

\* Lines 85-92: the coarse embedding of the first 2000 characters.
idx_coarse(p, o) ==
    /\ ipass[p].pc = "coarse"
    /\ ipass' = [ipass EXCEPT ![p] =
         IF o = "raise" THEN EndedPass("failed", @.doc)
         ELSE [@ EXCEPT !.pc = "cleanup", !.coarse = (o = "vec")]]
    /\ UNCHANGED <<subscribers, pub, docs, chunks, fs, upl, proposals, eventLog, srch, reranker>>

\* Lines 104-125: count the existing nodes of the archive and delete them, in
\* the transaction of the pass; then cut the text into the list chunks.
idx_cleanup(p) ==
    /\ ipass[p].pc = "cleanup"
    /\ ipass' = [ipass EXCEPT ![p].pc = "chunks",
                              ![p].deleted = CleanupRows(chunks, ipass[p].doc),
                              ![p].chunks = ChunkWindows(ipass[p].L)]
    /\ UNCHANGED <<subscribers, pub, docs, chunks, fs, upl, proposals, eventLog, srch, reranker>>

\* Lines 134-151: one round of the chunk loop.
idx_chunk(p, o) ==
    /\ ipass[p].pc = "chunks"
    /\ ipass[p].next < NumChunks(ipass[p].L)
    /\ LET i == ipass[p].next IN
       IF ChunkLen(ipass[p].L, i) < MIN_CHUNK_LEN
       THEN /\ o = "empty"
            /\ ipass' = [ipass EXCEPT ![p].next = i + 1]
            /\ UNCHANGED chunks
       ELSE /\ ipass' = [ipass EXCEPT ![p] =
                 IF o = "raise" THEN EndedPass("failed", @.doc)
                 ELSE [@ EXCEPT !.next = i + 1,
                                !.nodes = IF o = "vec" THEN @ \cup {i} ELSE @]]
            /\ chunks' = IF o = "raise" THEN Rollback(chunks, ipass[p].deleted) ELSE chunks
    /\ UNCHANGED <<subscribers, pub, docs, fs, upl, proposals, eventLog, srch, reranker>>

\* Line 153: db.commit() writes the coarse embedding, the DELETE and the new
\* nodes at once; lines 156-158: an exception rolls all of it back. The flush
\* raises when the archive row has been deleted meanwhile: the UPDATE of the
\* record matches no row, the INSERT of a node breaks the foreign key.
idx_commit(p, o) ==
    /\ ipass[p].pc = "chunks"
    /\ ipass[p].next = NumChunks(ipass[p].L)
    /\ LET d == ipass[p].doc IN
       LET flushed == /\ ipass[p].coarse => RowExists(docs, d)
                      /\ ForeignKeyAccepts(docs, PassRows(p)) IN
       IF o = "raise" \/ ~flushed
       THEN /\ ipass' = [ipass EXCEPT ![p] = EndedPass("failed", d)]
            /\ chunks' = Rollback(chunks, ipass[p].deleted)
            /\ UNCHANGED docs
       ELSE /\ ipass' = [ipass EXCEPT ![p] = EndedPass("done", d)]
            /\ chunks' = (chunks \ ipass[p].deleted) \cup PassRows(p)
            /\ docs' = IF ipass[p].coarse
                       THEN [docs EXCEPT ![d].embedding = "vec", ![d].is_vectorized = 1]
                       ELSE docs
    /\ UNCHANGED <<subscribers, pub, fs, upl, proposals, eventLog, srch, reranker>>

\* scripts/batch_reprocess_images.py, line 103: a pass started by hand.
batch_reprocess(p, d) ==
    /\ ipass[p].pc = "idle"
    /\ ipass' = [ipass EXCEPT ![p].pc = "start", ![p].doc = d]
    /\ UNCHANGED <<subscribers, pub, docs, chunks, fs, upl, proposals, eventLog, srch, reranker>>

----------------------------------------------------------------------------
(* Refine proposals (plugins/gardener_plugin.py, api/proposal_endpoints.py) *)

NoProposal == [status |-> "none", archive_id |-> 0, nodes |-> <<>>]

\* RefinerAgent.scan_and_propose: an archive without vector nodes and with
\* content gets a pending proposal whose suggested nodes are numbered from 0.
scan_and_propose(q, d, n) ==
    /\ proposals[q].status = "none"
    /\ ChunksOf(chunks, d) = {}
    /\ docs[d].full_text # "None" \/ docs[d].summary # ""
    /\ \A r \in ProposalIds :
         ~(proposals[r].status = "pending" /\ proposals[r].archive_id = d)
    /\ proposals' = [proposals EXCEPT ![q] =
         [status |-> "pending", archive_id |-> d, nodes |-> [k \in 1..n |-> k - 1]]]
    /\ UNCHANGED <<subscribers, pub, docs, chunks, fs, upl, ipass, eventLog, srch, reranker>>

\* approve_proposal with _execute_refine_archive: one VectorNode per suggested
\* node is added to the archive, then the proposal is approved and committed.
\* Without the archive the execution raises and the proposal stays pending.
approve_proposal(q) ==
    /\ proposals[q].status = "pending"
    /\ RowExists(docs, proposals[q].archive_id)
    /\ LET pr == proposals[q] IN
       /\ chunks' = chunks \cup
            {[parent |-> pr.archive_id, chunk_index |-> pr.nodes[k], src |-> <<"proposal", q, k>>]
               : k \in 1..Len(pr.nodes)}
       /\ proposals' = [proposals EXCEPT ![q].status = "approved"]
    /\ UNCHANGED <<subscribers, pub, docs, fs, upl, ipass, eventLog, srch, reranker>>

----------------------------------------------------------------------------
(* Upload and CoreArchiverPlugin (services/processor.py,                   *)
(* plugins/core_archiver.py)                                               *)

\* Plugin registration at startup (main.py lines 134-135, PluginManager.
\* load_plugins): the modules of src/plugins in the order of their names.
RECURSIVE RegisterAll(_, _)
RegisterAll(subs, regs) ==
    IF regs = <<>> THEN subs
    ELSE RegisterAll(SubscribeResult(subs, regs[1][1], regs[1][2]), Tail(regs))

PluginRegistrations ==
    << <<FILE_UPLOADED, "archiver">>,          \* core_archiver.py
       <<ARCHIVE_COMPLETED, "vectorizer">>,    \* core_vectorizer.py
       <<FILE_UPLOADED, "example">> >>         \* example_plugin.py

StartupSubscribers == RegisterAll(ClearResult(<<>>), PluginRegistrations)

\* PluginManager._register_plugin_from_module, lines 86-96: a plugin whose
\* name is in self.plugins already is skipped, another one is registered with
\* the bus and entered in self.plugins.
RECURSIVE LoadPlugins(_, _, _)
LoadPlugins(subs, plugins, regs) ==
    IF regs = <<>> THEN [subs |-> subs, plugins |-> plugins]
    ELSE IF regs[1][2] \in plugins
         THEN LoadPlugins(subs, plugins, Tail(regs))
         ELSE LoadPlugins(SubscribeResult(subs, regs[1][1], regs[1][2]),
                          plugins \cup {regs[1][2]}, Tail(regs))

\* main.py, lines 134-135: the startup of the application clears the bus and
\* loads the plugins. FirstStartup is the startup of a fresh process,
\* SecondStartup a startup that is run again in the same process.
StartupCycle(st) == LoadPlugins(ClearResult(st.subs), st.plugins, PluginRegistrations)
FirstStartup == StartupCycle([subs |-> ClearResult(<<>>), plugins |-> {}])
SecondStartup == StartupCycle(FirstStartup)

\* The number of tasks a publish builds for handler h.
Dispatches(list, h) == Cardinality({i \in 1..Len(list) : list[i] = h})

\* The files of the storage root: fs is a set of [path, file], file being the
\* upload whose content the file holds.
Exists(files, path) == \E e \in files : e.path = path

\* shutil.move(src, dst): dst is overwritten when it exists.
Move(files, src, dst) ==
    {e \in files : e.path # src /\ e.path # dst}
      \cup {[path |-> dst, file |-> e.file] : e \in {x \in files : x.path = src}}

\* _pick_year_month: the semantic date when it parses, else today.
CurrentYM == "2026.11"
PickYearMonth(date) == IF date = "2023-11-15" THEN "2023.11" ELSE CurrentYM

\* datetime.now() as a date; CurrentYM is its year and month.
Today == "2026-11-03"

\* A mutant of NormalizeFilename: the name is kept as it is.
NormalizeKeepsName(name) == name

\* _normalize_filename: a name that begins with a date is kept, any other
\* name gets the date of today as a prefix.
NormalizeFilename(name) ==
    IF name # <<>> /\ name[1] \in {"2023-11-15", Today} THEN name ELSE <<Today>> \o name

\* _generate_target_path, lines 213-221: the normalized name and the first of
\* name, name_1, name_2, ... that does not exist in the target directory.
TargetPath(files, name, ym) ==
    LET final_name == NormalizeFilename(name) IN
    LET at(k) == [dir |-> "final", ym |-> ym, name |-> final_name, n |-> k] IN
    at(CHOOSE k \in 0..Cardinality(files) :
         /\ ~Exists(files, at(k))
         /\ \A j \in 0..(k - 1) : Exists(files, at(j)))

\* _handle_failed_file, lines 227-230: the _FAILED directory of the folder,
\* under the name the file has.
FailedPath(src, ym) == [dir |-> "_FAILED", ym |-> ym, name |-> src.name, n |-> src.n]

\* What the analysis capability may answer: a result with or without a
\* suggested filename and a structured date, an exception ("raise"), or a
\* result whose fields have the wrong shape ("malformed": lines 328-347 raise).
AnalysisOutcomes ==
    [kind : {"ok"}, sugg : {"", "inv"}, date : {"None", "2023-11-15"}]
      \cup {[kind |-> "raise", sugg |-> "", date |-> "None"],
            [kind |-> "malformed", sugg |-> "", date |-> "None"]}

IdleUpload ==
    [pc |-> "bg_start", resolved |-> FALSE, text |-> "None", name |-> <<>>,
     date |-> "None", category |-> "", summary |-> "", ym |-> "None",
     target |-> NoPath, excStep |-> "none", failCommitted |-> FALSE,
     result |-> "none", arch_passes |-> 0, idx_passes |-> 0]

\* excStep names the step whose exception reached the failure handler and
\* failCommitted tells whether the handler's commit of FAILED went through;
\* arch_passes and idx_passes count the archiver and indexer handlers that the
\* publishes of the upload dispatched: all four only record what happened. The fields of the pass that no later step
\* reads are reset.
Forget(r) == [r EXCEPT !.text = "None", !.name = <<>>, !.date = "None",
                       !.category = "", !.summary = "", !.target = NoPath]

\* process_file_background, lines 66-76 and 113-122.
bg_start(u, o) ==
    /\ upl[u].pc = "bg_start"
    /\ CASE o = "ok" ->
              /\ docs' = [docs EXCEPT ![u].status = PROCESSING, ![u].error = "None"]
              /\ upl' = [upl EXCEPT ![u].pc = "bg_publish"]
         [] o = "raise" ->
              /\ docs' = [docs EXCEPT ![u].status = FAILED, ![u].error = "bg"]
              /\ upl' = [upl EXCEPT ![u].pc = "bg_done", ![u].result = "False"]
    /\ UNCHANGED <<subscribers, pub, chunks, fs, ipass, proposals, eventLog, srch, reranker>>

\* Line 95: publish(FILE_UPLOADED) in the thread's own event loop.
bg_publish(u) ==
    /\ upl[u].pc = "bg_publish"
    /\ upl' = [upl EXCEPT
         ![u].pc = IF "archiver" \in SeqRange(DispatchList(subscribers, FILE_UPLOADED))
                   THEN "arch_start" ELSE "bg_refresh",
         ![u].arch_passes = Dispatches(DispatchList(subscribers, FILE_UPLOADED), "archiver")]
    /\ UNCHANGED <<subscribers, pub, docs, chunks, fs, ipass, proposals, eventLog, srch, reranker>>

\* _process_archive_flow, lines 66-76: PROCESSING is committed.
arch_start(u, o) ==
    /\ upl[u].pc = "arch_start"
    /\ CASE o = "ok" ->
              /\ docs' = [docs EXCEPT ![u].status = PROCESSING]
              /\ upl' = [upl EXCEPT ![u].pc = "arch_prep"]
         [] o = "raise" ->
              /\ upl' = [upl EXCEPT ![u].pc = "bg_refresh"]
              /\ UNCHANGED docs
    /\ UNCHANGED <<subscribers, pub, chunks, fs, ipass, proposals, eventLog, srch, reranker>>

\* _process_and_persist, lines 303-309: the owner and the storage root.
arch_prep(u, o) ==
    /\ upl[u].pc = "arch_prep"
    /\ upl' = [upl EXCEPT ![u].pc = IF o = "ok" THEN "arch_extract" ELSE "arch_fail",
                          ![u].resolved = (o = "ok"),
                          ![u].excStep = IF o = "ok" THEN "none" ELSE "prep"]
    /\ UNCHANGED <<subscribers, pub, docs, chunks, fs, ipass, proposals, eventLog, srch, reranker>>

\* Step 2, line 311: _extract_text_from_file absorbs every exception.
arch_extract(u, o) ==
    /\ upl[u].pc = "arch_extract"
    /\ upl' = [upl EXCEPT ![u].pc = "arch_analyze",
                          ![u].text = IF o = "short" THEN "short" ELSE "None"]
    /\ UNCHANGED <<subscribers, pub, docs, chunks, fs, ipass, proposals, eventLog, srch, reranker>>

\* Steps 3 to 5a, lines 313-347: the analysis, whose exception is absorbed,
\* then the suggested name, the year and month and the category.
arch_analyze(u, a) ==
    /\ upl[u].pc = "arch_analyze"
    /\ CASE a.kind = "ok" ->
              upl' = [upl EXCEPT ![u].pc = "arch_path",
                        ![u].name = IF a.sugg = "" THEN UploadName(u) ELSE <<a.sugg>>,
                        ![u].date = a.date,
                        ![u].ym = PickYearMonth(a.date),
                        ![u].category = "Finance",
                        ![u].summary = "S"]
         [] a.kind = "raise" ->
              upl' = [upl EXCEPT ![u].pc = "arch_path",
                        ![u].name = UploadName(u),
                        ![u].ym = PickYearMonth("None"),
                        ![u].category = "Unsorted"]
         [] a.kind = "malformed" ->
              upl' = [upl EXCEPT ![u].pc = "arch_fail", ![u].excStep = "sanitise"]
    /\ UNCHANGED <<subscribers, pub, docs, chunks, fs, ipass, proposals, eventLog, srch, reranker>>

\* Step 5, lines 349-351: _generate_target_path.
arch_path(u, o) ==
    /\ upl[u].pc = "arch_path"
    /\ CASE o = "ok" ->
              upl' = [upl EXCEPT ![u].pc = "arch_move",
                                 ![u].target = TargetPath(fs, upl[u].name, upl[u].ym)]
         [] o = "raise" ->
              upl' = [upl EXCEPT ![u].pc = "arch_fail", ![u].excStep = "path"]
    /\ UNCHANGED <<subscribers, pub, docs, chunks, fs, ipass, proposals, eventLog, srch, reranker>>

\* Step 6, line 354: shutil.move to the final path.
arch_move(u, o) ==
    /\ upl[u].pc = "arch_move"
    /\ IF o = "ok" /\ Exists(fs, InboxPath(u))
       THEN /\ fs' = Move(fs, InboxPath(u), upl[u].target)
            /\ upl' = [upl EXCEPT ![u].pc = "arch_persist"]
       ELSE /\ upl' = [upl EXCEPT ![u].pc = "arch_fail", ![u].excStep = "move"]
            /\ UNCHANGED fs
    /\ UNCHANGED <<subscribers, pub, docs, chunks, ipass, proposals, eventLog, srch, reranker>>

\* A mutant of PersistedRecord: the fields are written but the status is not.
PersistedWithoutStatus(rec, r) ==
    [rec EXCEPT !.filename = r.target, !.category = r.category, !.summary = r.summary,
                !.full_text = r.text, !.relative_path = r.target,
                !.semantic_date = r.date]

\* Lines 383-396: the row that step 7 commits.
PersistedRecord(rec, r) ==
    [rec EXCEPT !.filename = r.target, !.category = r.category, !.summary = r.summary,
                !.full_text = r.text, !.relative_path = r.target,
                !.semantic_date = r.date, !.status = COMPLETED, !.error = "None"]

\* Step 7, lines 358-399: "raise" is an exception before the commit (stat,
\* commit), "raise_late" one after it (refresh).
arch_persist(u, o) ==
    /\ upl[u].pc = "arch_persist"
    /\ CASE o = "ok" ->
              /\ docs' = [docs EXCEPT ![u] = PersistedRecord(docs[u], upl[u])]
              /\ upl' = [upl EXCEPT ![u] = Forget([@ EXCEPT !.pc = "arch_publish"])]
         [] o = "raise" ->
              /\ upl' = [upl EXCEPT ![u].pc = "arch_fail", ![u].excStep = "persist"]
              /\ UNCHANGED docs
         [] o = "raise_late" ->
              /\ docs' = [docs EXCEPT ![u] = PersistedRecord(docs[u], upl[u])]
              /\ upl' = [upl EXCEPT ![u].pc = "arch_fail", ![u].excStep = "persist"]
    /\ UNCHANGED <<subscribers, pub, chunks, fs, ipass, proposals, eventLog, srch, reranker>>

\* Lines 412-418: the ARCHIVE_COMPLETED event of the pass.
CompletionEvents(u) == <<[name |-> ARCHIVE_COMPLETED, archive_id |-> u]>>

\* Step 8, line 418: publish(ARCHIVE_COMPLETED); the handler of the
\* vectorizer runs inside the publish.
arch_publish(u) ==
    /\ upl[u].pc = "arch_publish"
    /\ eventLog' = eventLog \o CompletionEvents(u)
    /\ IF "vectorizer" \in SeqRange(DispatchList(subscribers, ARCHIVE_COMPLETED))
          /\ CompletionEvents(u) # <<>>
       THEN /\ ipass' = [ipass EXCEPT ![u] = [IdlePass EXCEPT !.pc = "start", !.doc = u]]
            /\ upl' = [upl EXCEPT
                 ![u].pc = "arch_wait",
                 ![u].idx_passes = Len(CompletionEvents(u)) *
                     Dispatches(DispatchList(subscribers, ARCHIVE_COMPLETED), "vectorizer")]
       ELSE /\ upl' = [upl EXCEPT ![u].pc = "bg_refresh"]
            /\ UNCHANGED ipass
    /\ UNCHANGED <<subscribers, pub, docs, chunks, fs, proposals, srch, reranker>>

\* The publish of line 418 returns when the indexing pass has ended; lines
\* 419-439 then return the record.
arch_return(u) ==
    /\ upl[u].pc = "arch_wait"
    /\ ipass[u].pc \in {"done", "failed", "absent"}
    /\ upl' = [upl EXCEPT ![u].pc = "bg_refresh"]
    /\ UNCHANGED <<subscribers, pub, docs, chunks, fs, ipass, proposals, eventLog, srch, reranker>>

\* Lines 447-454 with _handle_failed_file: the file goes to _FAILED when it is
\* still at its uploaded path and the owner and the storage root are known.
FailureMove(files, r, u) ==
    LET ym == IF r.ym = "None" THEN CurrentYM ELSE r.ym IN
    IF Exists(files, InboxPath(u)) /\ r.resolved
    THEN Move(files, InboxPath(u), FailedPath(InboxPath(u), ym))
    ELSE files

\* A mutant of FailureRecord: the error is stored, the status is left as it is.
FailureRecordKeepsStatus(rec, e) == [rec EXCEPT !.error = e]

\* Lines 456-459: the row that the failure handler commits.
FailureRecord(rec, e) == [rec EXCEPT !.status = FAILED, !.error = e]

\* The failure handler, lines 441-477: rollback, the move to _FAILED ("move_raise":
\* the move fails and is ignored), the commit of FAILED ("commit_raise": it
\* fails); the exception is raised again and logged by _process_archive_flow.
arch_fail(u, o) ==
    /\ upl[u].pc = "arch_fail"
    /\ fs' = IF o = "move_raise" THEN fs ELSE FailureMove(fs, upl[u], u)
    /\ docs' = IF o = "commit_raise" THEN docs
               ELSE [docs EXCEPT ![u] = FailureRecord(docs[u], upl[u].excStep)]
    /\ upl' = [upl EXCEPT ![u] = Forget([@ EXCEPT !.pc = "bg_refresh",
                                                   !.failCommitted = (o # "commit_raise")])]
    /\ UNCHANGED <<subscribers, pub, chunks, ipass, proposals, eventLog, srch, reranker>>

\* process_file_background, lines 96-111: the status is read again; an
\* exception here makes it FAILED.
bg_refresh(u, o) ==
    /\ upl[u].pc = "bg_refresh"
    /\ CASE o = "ok" ->
              /\ upl' = [upl EXCEPT ![u].pc = "bg_done",
                           ![u].result = IF docs[u].status = FAILED THEN "False" ELSE "True"]
              /\ UNCHANGED docs
         [] o = "raise" ->
              /\ docs' = [docs EXCEPT ![u].status = FAILED, ![u].error = "EventBus Error"]
              /\ upl' = [upl EXCEPT ![u].pc = "bg_done", ![u].result = "False"]
    /\ UNCHANGED <<subscribers, pub, chunks, fs, ipass, proposals, eventLog, srch, reranker>>

----------------------------------------------------------------------------
(* Deletion of an archive (api/data_endpoints.py), the coarse embedding    *)
(* written outside a pass (RetrievalAgent.embed_document and               *)
(* delete_document_vector) and the daily report (services/chat_distiller)  *)

\* delete_archive: the file of the archive is unlinked ("unlink_raise": that
\* fails and is logged), then the vector nodes of the archive and its row are
\* deleted in one transaction ("commit_raise": it fails and nothing of it is
\* stored).
delete_archive(d, o) ==
    /\ RowExists(docs, d)
    /\ fs' = IF o = "unlink_raise" THEN fs
             ELSE {e \in fs : e.path # docs[d].relative_path}
    /\ IF o = "commit_raise"
       THEN UNCHANGED <<docs, chunks>>
       ELSE /\ chunks' = chunks \ ChunksOf(chunks, d)
            /\ docs' = [docs EXCEPT ![d] = NoRecord]
    /\ UNCHANGED <<subscribers, pub, upl, ipass, proposals, eventLog, srch, reranker>>

\* RetrievalAgent.embed_document: the text is embedded and the vector is
\* written to the row with the flag; an empty vector, a missing row or an
\* exception leave the row as it is.
embed_document(d, o) ==
    /\ docs' = IF o = "vec" /\ RowExists(docs, d)
               THEN [docs EXCEPT ![d].embedding = "vec", ![d].is_vectorized = 1]
               ELSE docs
    /\ UNCHANGED <<subscribers, pub, chunks, fs, upl, ipass, proposals, eventLog, srch, reranker>>

\* RetrievalAgent.delete_document_vector: the embedding and the flag of the
\* row are cleared.
delete_document_vector(d) ==
    /\ RowExists(docs, d)
    /\ docs' = [docs EXCEPT ![d].embedding = "None", ![d].is_vectorized = 0]
    /\ UNCHANGED <<subscribers, pub, chunks, fs, upl, ipass, proposals, eventLog, srch, reranker>>

\* The row ChatDistiller._save_as_archive inserts for the report of a day
\* (lines 153-165): a virtual path under memories/, no file, not vectorized.
ReportPath(d) == [dir |-> "memories", ym |-> "", name |-> <<"DailyChatReport", d>>, n |-> 0]
ReportRecord(d) ==
    [NewRecord(d) EXCEPT !.filename = ReportPath(d), !.category = "DailyReport",
                         !.summary = "S", !.full_text = "short",
                         !.relative_path = ReportPath(d)]

\* ChatDistiller._save_as_archive, lines 139-151 and 167: the report of the
\* day exists already and is overwritten.
save_as_archive(d) ==
    /\ RowExists(docs, d)
    /\ docs[d].filename = ReportPath(d)
    /\ docs' = [docs EXCEPT ![d].full_text = "short", ![d].is_vectorized = 0]
    /\ UNCHANGED <<subscribers, pub, chunks, fs, upl, ipass, proposals, eventLog, srch, reranker>>

----------------------------------------------------------------------------
(* RetrievalAgent (src/services/agents/retrieval_agent.py) and             *)
(* RerankService (src/services/ai/rerank_provider.py)                      *)

\* Scores are counted in units of 0.00005, so that halving a calibrated score
\* is exact: 0.40 is 8000, 1.0 is 20000.
min_score == 9000        \* 0.45, the default of search_by_vector
base_score == 6000       \* 0.3, a keyword match
RECENT_BONUS == 2000     \* 0.1, added for a recently ingested document
RECENT_SPAN == 5         \* record.id >= max_id - 5
TRUST_SCORE == 17000     \* 0.85, no penalty from this calibrated score on
RERANK_THRESHOLD == 8000 \* 0.40

\* The similarity scores 1 / (1 + distance) that the embeddings of the model
\* have to the query: 0.44 and 0.70 for chunks, 0.50 for a whole document.
ChunkScores == {8800, 14000}
ParentScores == {10000}

\* The logits of the cross-encoder, in tenths (-1.0, 0.4, 1.6, 2.0; 0.0 is the
\* raw score of a failed inference), and their sigmoid: 0.2689, 0.5987, 0.5,
\* 0.8320, 0.8808.
Logits == {-10, 4, 16, 20}
sigmoid(x) ==
    CASE x = -10 -> 5378
      [] x = 0 -> 10000
      [] x = 4 -> 11974
      [] x = 16 -> 16640
      [] x = 20 -> 17616

Take(s, n) == SubSeq(s, 1, IF Len(s) < n THEN Len(s) ELSE n)

\* list.sort(key=score, reverse=True) and sorted(..., reverse=True): stable,
\* elements of equal score keep their order.
InsertDesc(s, x) ==
    LET k == Cardinality({i \in 1..Len(s) : s[i].score >= x.score}) IN
    SubSeq(s, 1, k) \o <<x>> \o SubSeq(s, k + 1, Len(s))

RECURSIVE SortDesc(_)
SortDesc(s) ==
    IF s = <<>> THEN <<>>
    ELSE InsertDesc(SortDesc(SubSeq(s, 1, Len(s) - 1)), s[Len(s)])

\* ORDER BY distance of a query: the rows by falling score; rows at the same
\* distance come in the order of their document ids.
RECURSIVE OrderByScore(_)
OrderByScore(S) ==
    IF S = {} THEN <<>>
    ELSE LET m == CHOOSE x \in S : \A y \in S :
                    \/ x.score > y.score
                    \/ (x.score = y.score /\ x.doc <= y.doc)
         IN <<m>> \o OrderByScore(S \ {m})

RECURSIVE OrderByIdDesc(_)
OrderByIdDesc(S) ==
    IF S = {} THEN <<>>
    ELSE LET m == CHOOSE x \in S : \A y \in S : x >= y
         IN <<m>> \o OrderByIdDesc(S \ {m})

RecallKFourfold(top_k) == top_k * 4

\* Line 371.
RecallK(top_k) == IF top_k < 10 THEN top_k * 3 ELSE top_k * 2

\* A dict in the order of insertion: a sequence of entries, each with its key
\* in the field id.
IndexOf(s, key) ==
    IF \E i \in 1..Len(s) : s[i].id = key
    THEN CHOOSE i \in 1..Len(s) : s[i].id = key
    ELSE 0

\* user_id of a search: the default of hybrid_search and search_by_vector.
SearchUser == 1

\* The rows of vector_nodes and of archives that have an embedding, with the
\* score of the embedding to the query. A row of the corpus tells of one
\* document its chunks, its owner (user_id) and whether its ArchiveRecord is
\* in the table when the queries of the search run (record): the chunks of a
\* document without record are chunks whose parent is missing. The child
\* query (lines 116-120) has no filter; the parent query (lines 125-143)
\* takes the vectorized records of the user.
ChildRows(corpus) ==
    {[doc |-> corpus[q[1]].id, score |-> q[2]] :
       q \in {p \in (DOMAIN corpus) \X ChunkScores : p[2] \in corpus[p[1]].childs}}

ParentRows(corpus) ==
    {[doc |-> corpus[d].id, score |-> corpus[d].parent] :
       d \in {e \in DOMAIN corpus : /\ corpus[e].record
                                    /\ corpus[e].user_id = SearchUser
                                    /\ corpus[e].parent # 0}}

\* search_by_vector, lines 158-171: the best chunk of each parent.
RECURSIVE AggregateChildren(_, _)
AggregateChildren(agg, rows) ==
    IF rows = <<>> THEN agg
    ELSE LET child == rows[1] IN
         LET i == IndexOf(agg, child.doc) IN
         LET entry == [id |-> child.doc, score |-> child.score, source |-> "child_node"] IN
         AggregateChildren(
            IF i = 0 THEN Append(agg, entry)
            ELSE IF child.score > agg[i].score THEN [agg EXCEPT ![i] = entry]
            ELSE agg,
            Tail(rows))

\* A mutant of AggregateParents: the score of a parent never replaces the
\* score of its best chunk.
RECURSIVE AggregateParentsNoBoost(_, _)
AggregateParentsNoBoost(agg, rows) ==
    IF rows = <<>> THEN agg
    ELSE LET parent == rows[1] IN
         AggregateParentsNoBoost(
            IF IndexOf(agg, parent.doc) = 0
            THEN Append(agg, [id |-> parent.doc, score |-> parent.score, source |-> "parent_vector"])
            ELSE agg,
            Tail(rows))

\* Lines 175-194: a parent is added when none of its chunks was found, and
\* raises the score of its entry when its own score is higher.
RECURSIVE AggregateParents(_, _)
AggregateParents(agg, rows) ==
    IF rows = <<>> THEN agg
    ELSE LET parent == rows[1] IN
         LET i == IndexOf(agg, parent.doc) IN
         AggregateParents(
            IF i = 0
            THEN Append(agg, [id |-> parent.doc, score |-> parent.score, source |-> "parent_vector"])
            ELSE IF parent.score > agg[i].score
            THEN [agg EXCEPT ![i].score = parent.score, ![i].source = "parent_vector_boost"]
            ELSE agg,
            Tail(rows))

\* Line 118: the limit of the child query of search_by_vector(top_k).
ChildLimit(top_k) == top_k * 3

RecordAlwaysFound(corpus, pid) == TRUE

\* Lines 206-213: record_map.get(pid) of the records fetched by id; an entry
\* without record is skipped.
RecordFound(corpus, pid) ==
    \E d \in DOMAIN corpus : corpus[d].id = pid /\ corpus[d].record

\* The key of a vector result in the merge: "id": str(record.id), line 238.
VectorKey(id) == <<"str", id>>

\* search_by_vector: the child query (limit top_k * 3), the parent query
\* (limit top_k), the aggregation, the fetch of the records of the aggregated
\* ids, the threshold min_score, the sort by
\* falling score and the cut at top_k. An exception gives the empty list.
search_by_vector(corpus, top_k, outcome) ==
    IF outcome = "raise" THEN <<>>
    ELSE
    LET child_results == Take(OrderByScore(ChildRows(corpus)), ChildLimit(top_k)) IN
    LET parent_results == Take(OrderByScore(ParentRows(corpus)), top_k) IN
    LET aggregated_scores ==
          AggregateParents(AggregateChildren(<<>>, child_results), parent_results) IN
    LET kept == SelectSeq(aggregated_scores,
                          LAMBDA e : RecordFound(corpus, e.id) /\ e.score >= min_score) IN
    LET final_results ==
          [i \in 1..Len(kept) |->
             [id |-> VectorKey(kept[i].id), doc |-> kept[i].id,
              score |-> kept[i].score, source |-> "vector"]] IN
    Take(SortDesc(final_results), top_k)

\* search_by_keywords: the records that match a keyword, newest id first, cut
\* at limit. An exception gives the empty list.
search_by_keywords(corpus, limit, outcome) ==
    IF outcome = "raise" THEN <<>>
    ELSE Take(OrderByIdDesc({corpus[d].id :
                 d \in {e \in DOMAIN corpus : /\ corpus[e].record
                                              /\ corpus[e].user_id = SearchUser
                                              /\ corpus[e].kw}}), limit)

\* The limits of the three recall queries of a hybrid_search and the numbers
\* of rows they return: the child query and the parent query of
\* search_by_vector (lines 116-120 and 141-143; none is run when the embedding
\* of the query fails) and the query of search_by_keywords (line 72).
RecallLimits(recall_k) ==
    [chunks |-> ChildLimit(recall_k), parents |-> recall_k, keywords |-> recall_k]

Fetched(corpus, recall_k, vo, ko) ==
    [chunks |-> IF vo = "raise" THEN 0
                ELSE Len(Take(OrderByScore(ChildRows(corpus)), ChildLimit(recall_k))),
     parents |-> IF vo = "raise" THEN 0
                 ELSE Len(Take(OrderByScore(ParentRows(corpus)), recall_k)),
     keywords |-> Len(search_by_keywords(corpus, recall_k, ko))]

\* A date string is modelled by its numeric fields: "2024" is <<2024>>,
\* "2023-11" is <<2023, 11>>, "2023-11-15" is <<2023, 11, 15>>; None and ""
\* are <<>>. A datetime is <<year, month, day>>, None is <<>>.
NoDate == <<>>

\* datetime.fromisoformat: a full date is read as it stands; a year alone or a
\* year with a month is no ISO date for it and raises ValueError (NoDate here).
FromIsoFormat(value) ==
    IF Len(value) = 3 /\ value[2] \in 1..12 /\ value[3] \in 1..31 THEN value ELSE NoDate

\* _parse_date, lines 264-275: the value itself, else the value with "-01"
\* appended, else None.
ParseDate(value) ==
    IF value = NoDate THEN NoDate
    ELSE IF FromIsoFormat(value) # NoDate THEN FromIsoFormat(value)
    ELSE FromIsoFormat(value \o <<1>>)

\* start <= dt of two datetimes.
DateLeq(a, b) ==
    \/ a[1] < b[1]
    \/ a[1] = b[1] /\ a[2] < b[2]
    \/ a[1] = b[1] /\ a[2] = b[2] /\ a[3] <= b[3]

\* datetime.now() of the search, and now - timedelta(days=num) at 00:00 (for
\* the few days that stay within the month).
now == <<2026, 11, 3>>
DaysBefore(dt, num) == <<dt[1], dt[2], dt[3] - num>>

\* A time range expression: none, "last<num>d", "<left>~<right>", or a single
\* date, month or year token <left>.
NoTimeRange == [kind |-> "none", num |-> 0, left |-> NoDate, right |-> NoDate]
LastDays(num) == [kind |-> "last", num |-> num, left |-> NoDate, right |-> NoDate]
Between(left, right) == [kind |-> "tilde", num |-> 0, left |-> left, right |-> right]
Token(left) == [kind |-> "token", num |-> 0, left |-> left, right |-> NoDate]

\* _match_time_range, lines 286-312: start and end of the range.
RangeStart(time_range) ==
    IF time_range.kind = "last" THEN DaysBefore(now, time_range.num)
    ELSE ParseDate(time_range.left)

\* A mutant of RangeEnd: a single token also closes the range at its date.
RangeEndAtToken(time_range) ==
    CASE time_range.kind = "last" -> now
      [] time_range.kind = "tilde" -> ParseDate(time_range.right)
      [] OTHER -> ParseDate(time_range.left)

RangeEnd(time_range) ==
    CASE time_range.kind = "last" -> now
      [] time_range.kind = "tilde" -> ParseDate(time_range.right)
      [] OTHER -> NoDate

\* Lines 314-319.
InRange(dt, start, end) ==
    IF start # NoDate /\ end # NoDate THEN DateLeq(start, dt) /\ DateLeq(dt, end)
    ELSE IF start # NoDate THEN DateLeq(start, dt)
    ELSE TRUE

\* A mutant of MatchTimeRange: the ingestion timestamp is preferred.
MatchTimeRangeFallbackFirst(candidate, time_range, fallback_dt) ==
    IF time_range.kind = "none" THEN TRUE
    ELSE IF fallback_dt # NoDate
    THEN InRange(fallback_dt, RangeStart(time_range), RangeEnd(time_range))
    ELSE IF ParseDate(candidate) # NoDate
    THEN InRange(ParseDate(candidate), RangeStart(time_range), RangeEnd(time_range))
    ELSE TRUE

\* _match_time_range, lines 277-327: the semantic date when it can be parsed,
\* else the ingestion timestamp, else TRUE.
MatchTimeRange(candidate, time_range, fallback_dt) ==
    IF time_range.kind = "none" THEN TRUE
    ELSE LET semantic_dt == IF candidate # NoDate THEN ParseDate(candidate) ELSE NoDate IN
         IF semantic_dt # NoDate
         THEN InRange(semantic_dt, RangeStart(time_range), RangeEnd(time_range))
         ELSE IF fallback_dt # NoDate
         THEN InRange(fallback_dt, RangeStart(time_range), RangeEnd(time_range))
         ELSE TRUE

\* hybrid_search, lines 386-403: pass_time of a document id. records_map holds
\* the records of the recalled ids, or nothing when its query raised (loaded
\* is FALSE); an id without a record passes.
PassTime(corpus, id, time_range, loaded) ==
    \A d \in DOMAIN corpus :
        (loaded /\ corpus[d].id = id /\ corpus[d].record) =>
            MatchTimeRange(corpus[d].semantic_date, time_range, corpus[d].processed_at)

\* Lines 408-414: the largest id among the results that passed the filter.
MaxId(vector_results, keyword_results) ==
    LET ids == {vector_results[i].doc : i \in 1..Len(vector_results)}
                 \cup {keyword_results[i] : i \in 1..Len(keyword_results)} IN
    IF ids = {} THEN 0 ELSE CHOOSE m \in ids : \A x \in ids : m >= x

\* Lines 430-432.
KeywordScore(id, max_id) ==
    IF max_id > 0 /\ id >= max_id - RECENT_SPAN THEN base_score + RECENT_BONUS ELSE base_score

\* The key of a keyword result in the merge: record.id, an int (line 452).
KeywordKey(id) == <<"int", id>>

\* Lines 428-478: the keyword results are added to combined.
RECURSIVE MergeKeywords(_, _, _)
MergeKeywords(combined, keyword_results, max_id) ==
    IF keyword_results = <<>> THEN combined
    ELSE LET id == keyword_results[1] IN
         LET s == KeywordScore(id, max_id) IN
         LET i == IndexOf(combined, KeywordKey(id)) IN
         MergeKeywords(
            IF i = 0
            THEN Append(combined, [id |-> KeywordKey(id), doc |-> id, score |-> s, source |-> "keyword"])
            ELSE IF s > combined[i].score
            THEN [combined EXCEPT ![i].score = s, ![i].source = "keyword_boost"]
            ELSE combined,
            Tail(keyword_results), max_id)

\* Lines 405-478: combined, in the order of insertion.
Combined(vector_results, keyword_results) ==
    MergeKeywords(vector_results, keyword_results, MaxId(vector_results, keyword_results))

\* RerankService.rerank with _rerank_pytorch / _rerank_onnx: the candidates by
\* falling raw score, cut at top_k; when the inference raises, the first
\* top_k candidates with the raw score 0.0. Entries are [id: the index of the
\* candidate, score: the raw score].
rerank(n, top_k, r) ==
    IF r.kind = "failed"
    THEN Take([i \in 1..n |-> [id |-> i, score |-> 0]], top_k)
    ELSE Take(SortDesc([i \in 1..n |-> [id |-> i, score |-> r.logits[i]]]), top_k)

\* What the reranker may do for n candidates: no model or runtime (rerank
\* raises), an inference that raises, or a logit for every candidate.
RerankOutcomes(n) ==
    {[kind |-> "unavailable", logits |-> <<>>], [kind |-> "failed", logits |-> <<>>]}
      \cup [kind : {"ok"}, logits : [1..n -> Logits]]

\* Lines 528-536: the keywords of the search and the text of a candidate
\* (matched content, summary and filename), as words; k.lower() of a keyword
\* is sought in content_to_check.lower().
Keywords == {"Bill"}
Contents == {<<"Power", "BILL">>, <<"Pork", "receipt">>}
Lower(w) ==
    CASE w = "Bill" -> "bill"
      [] w = "BILL" -> "bill"
      [] w = "Power" -> "power"
      [] w = "Pork" -> "pork"
      [] OTHER -> w
HasKeyword(content, keywords) ==
    \E k \in keywords, i \in 1..Len(content) : Lower(k) = Lower(content[i])

\* A mutant of FinalScore: no candidate is penalized.
FinalScoreNoPenalty(raw, has_kw) == sigmoid(raw)

\* Lines 508-541: the calibrated score, halved when the candidate holds none
\* of the keywords and the calibrated score is below 0.85. The keyword list of
\* hybrid_search is never empty (lines 347-357).
FinalScore(raw, has_kw) ==
    LET norm_score == sigmoid(raw) IN
    IF ~has_kw /\ norm_score < TRUST_SCORE THEN norm_score \div 2 ELSE norm_score

\* RerankService, rerank_provider.py. The class attributes start as None
\* (lines 11-15) and __new__ hands every caller the one instance (17-20), so
\* the state of the service is shared by all searches of the process: model
\* is "none", "onnx" or "torch"; attempts counts the runs of the loading code
\* of _ensure_model, loads those that ended with a model, calls the rerank
\* calls begun. The searches run one after the other (hybrid_search is a
\* plain function called from the coroutine of the chat endpoint), so one
\* rerank call is in progress at a time: pc is its position, at the test of
\* _ensure_model ("ensure"), in the loading code ("load"), or at the choice
\* of the runtime ("infer"); result is what the last call returned.
ColdReranker ==
    [model |-> "none", loads |-> 0, attempts |-> 0, calls |-> 0,
     pc |-> "idle", result |-> "none"]

ModelNeverLoaded(service) == FALSE

\* Line 28: self._model or self._onnx_session.
ModelLoaded(service) == service.model # "none"

\* _ensure_model, lines 31-71: the ONNX session when the model file is there,
\* else the CrossEncoder; an exception sets _model and _onnx_session to None.
LoadModel(service, outcome) ==
    [service EXCEPT !.attempts = @ + 1,
                    !.loads = IF outcome = "raise" THEN @ ELSE @ + 1,
                    !.model = IF outcome = "raise" THEN "none" ELSE outcome]

\* _ensure_model, lines 27-71, as one step.
EnsureModel(service, outcome) ==
    IF ModelLoaded(service) THEN service ELSE LoadModel(service, outcome)

\* rerank, lines 73-80: no candidates, no model needed.
rr_call(candidates) ==
    /\ reranker.pc = "idle"
    /\ reranker.calls < MaxCalls
    /\ reranker' = [reranker EXCEPT
          !.calls = @ + 1,
          !.pc = IF candidates = 0 THEN "idle" ELSE "ensure",
          !.result = IF candidates = 0 THEN "[]" ELSE "none"]
    /\ UNCHANGED <<subscribers, pub, docs, chunks, fs, upl, ipass, proposals, eventLog, srch>>

\* Lines 28-29: the test of _ensure_model.
rr_check ==
    /\ reranker.pc = "ensure"
    /\ reranker' = [reranker EXCEPT !.pc = IF ModelLoaded(reranker) THEN "infer" ELSE "load"]
    /\ UNCHANGED <<subscribers, pub, docs, chunks, fs, upl, ipass, proposals, eventLog, srch>>

\* Lines 31-71: the loading code.
rr_load(outcome) ==
    /\ reranker.pc = "load"
    /\ reranker' = [LoadModel(reranker, outcome) EXCEPT !.pc = "infer"]
    /\ UNCHANGED <<subscribers, pub, docs, chunks, fs, upl, ipass, proposals, eventLog, srch>>

\* Lines 82-88: the scores of the runtime that is loaded (the zero scores of
\* a failed inference among them), or RuntimeError.
rr_infer ==
    /\ reranker.pc = "infer"
    /\ reranker' = [reranker EXCEPT
          !.pc = "idle",
          !.result = IF reranker.model # "none" THEN "scores" ELSE "RuntimeError"]
    /\ UNCHANGED <<subscribers, pub, docs, chunks, fs, upl, ipass, proposals, eventLog, srch>>

\* Lines 508-551: the reranked candidates in the order of the reranker, each
\* with its final score, without those below the threshold.
RerankedResults(combined, reranked_indices, has_kw) ==
    LET scored == [j \in 1..Len(reranked_indices) |->
                     [combined[reranked_indices[j].id] EXCEPT
                        !.score = FinalScore(reranked_indices[j].score, has_kw[reranked_indices[j].id])]] IN
    SelectSeq(scored, LAMBDA item : item.score >= RERANK_THRESHOLD)

\* Lines 556-563: the fallback when the rerank raised.
FallbackResults(combined, top_k) == Take(SortDesc(combined), top_k)

NoRerank == [kind |-> "none", logits |-> <<>>]

\* Before the recall no query has been sent.
NoFetch == [chunks |-> 0, parents |-> 0, keywords |-> 0]

IdleSearch(top_k, corpus, time_range) ==
    [pc |-> "start", top_k |-> top_k, corpus |-> corpus, time_range |-> time_range,
     vector_recall |-> <<>>, keyword_recall |-> <<>>, records |-> "none",
     limits |-> NoFetch, fetched |-> NoFetch,
     vector_results |-> <<>>, keyword_results |-> <<>>,
     combined |-> <<>>, rerank |-> NoRerank,
     has_kw |-> <<>>, result |-> <<>>, query_embedding |-> "none"]

\* hybrid_search, lines 359-403: both recalls at the width recall_k, then the
\* time filter. vo is the outcome of the embedding call for the query inside
\* search_by_vector ("raise": it fails), kept in query_embedding; lo is the
\* outcome of the query that loads the records of the recalled ids for the
\* time filter (lines 387-392; it runs only when an id was recalled), kept in
\* records. vector_recall and keyword_recall are the two lists before the
\* filter, vector_results and keyword_results the lists after it; limits and
\* fetched are the limits of the three recall queries and the numbers of rows
\* they returned.
search_recall(vo, ko, lo) ==
    /\ srch.pc = "start"
    /\ LET recall_k == RecallK(srch.top_k) IN
       LET v == search_by_vector(srch.corpus, recall_k, vo) IN
       LET k == search_by_keywords(srch.corpus, recall_k, ko) IN
       LET loaded == lo = "ok" IN
       /\ (v = <<>> /\ k = <<>>) => lo = "ok"
       /\ srch' = [srch EXCEPT
                  !.pc = "recalled", !.query_embedding = vo, !.records = lo,
                  !.vector_recall = v, !.keyword_recall = k,
                  !.limits = RecallLimits(recall_k),
                  !.fetched = Fetched(srch.corpus, recall_k, vo, ko),
                  !.vector_results =
                      SelectSeq(v, LAMBDA r : PassTime(srch.corpus, r.doc, srch.time_range, loaded)),
                  !.keyword_results =
                      SelectSeq(k, LAMBDA id : PassTime(srch.corpus, id, srch.time_range, loaded))]
    /\ UNCHANGED <<subscribers, pub, docs, chunks, fs, upl, ipass, proposals, eventLog, reranker>>

\* Lines 405-485: the merge; without a candidate the search returns [].
search_merge ==
    /\ srch.pc = "recalled"
    /\ LET c == Combined(srch.vector_results, srch.keyword_results) IN
       srch' = [srch EXCEPT !.combined = c,
                            !.pc = IF c = <<>> THEN "done" ELSE "merged"]
    /\ UNCHANGED <<subscribers, pub, docs, chunks, fs, upl, ipass, proposals, eventLog, reranker>>

\* Lines 487-563: the rerank with calibration, penalty and threshold, or the
\* fallback. has_kw tells for every candidate whether its snippet, summary or
\* filename holds a keyword. The rerank call loads the model when none is
\* loaded; it raises when there is none after that.
search_rerank ==
    /\ srch.pc = "merged"
    /\ \E r \in RerankOutcomes(Len(srch.combined)),
          content_to_check \in [1..Len(srch.combined) -> Contents] :
         LET has_kw == [i \in 1..Len(srch.combined) |->
                          HasKeyword(content_to_check[i], Keywords)] IN
         /\ r.kind = "unavailable" => \A i \in 1..Len(srch.combined) : has_kw[i]
         /\ srch' = [srch EXCEPT
              !.pc = "done", !.rerank = r, !.has_kw = has_kw,
              !.result = IF r.kind = "unavailable"
                         THEN FallbackResults(srch.combined, srch.top_k)
                         ELSE RerankedResults(srch.combined,
                                 rerank(Len(srch.combined), srch.top_k, r), has_kw)]
         /\ reranker' = [EnsureModel(reranker, IF r.kind = "unavailable" THEN "raise" ELSE "torch")
                           EXCEPT !.calls = @ + 1]
    /\ UNCHANGED <<subscribers, pub, docs, chunks, fs, upl, ipass, proposals, eventLog>>

----------------------------------------------------------------------------
(* The specifications                                                      *)

NoSubscribers == [e \in {} |-> <<>>]

InitBus ==
    /\ subscribers = NoSubscribers
    /\ pub = NoPub
    /\ docs = [d \in DocIds |-> NewRecord(d)]
    /\ chunks = {}
    /\ fs = {}
    /\ upl = [u \in DocIds |-> IdleUpload]
    /\ ipass = [p \in PassIds |-> IdlePass]
    /\ proposals = [q \in ProposalIds |-> NoProposal]
    /\ eventLog = <<>>
    /\ srch = IdleSearch(1, <<>>, NoTimeRange)
    /\ reranker = ColdReranker

NextBus ==
    \/ \E ev \in EventNames, h \in BusHandlers : subscribe(ev, h)
    \/ clear_subscribers
    \/ \E ev \in EventNames : publish(ev)
    \/ \E i \in 1..3, o \in HandlerOutcomes : execute_handler(i, o)
    \/ publish_return

SpecBus == InitBus /\ [][NextBus]_vars

\* The pipeline: every document has been uploaded (row PENDING, file in the
\* _INBOX) and the application has started, once or a second time in the same
\* process.
InitPipeline ==
    /\ subscribers \in {FirstStartup.subs, SecondStartup.subs}
    /\ pub = NoPub
    /\ docs = [d \in DocIds |-> NewRecord(d)]
    /\ chunks = {}
    /\ fs = {[path |-> InboxPath(u), file |-> u] : u \in DocIds}
    /\ upl = [u \in DocIds |-> IdleUpload]
    /\ ipass = [p \in PassIds |-> IdlePass]
    /\ proposals = [q \in ProposalIds |-> NoProposal]
    /\ eventLog = <<>>
    /\ srch = IdleSearch(1, <<>>, NoTimeRange)
    /\ reranker = ColdReranker

NextPipeline ==
    \/ \E u \in DocIds, o \in {"ok", "raise"} : bg_start(u, o)
    \/ \E u \in DocIds : bg_publish(u)
    \/ \E u \in DocIds, o \in {"ok", "raise"} : arch_start(u, o)
    \/ \E u \in DocIds, o \in {"ok", "raise"} : arch_prep(u, o)
    \/ \E u \in DocIds, o \in {"short", "none", "raise"} : arch_extract(u, o)
    \/ \E u \in DocIds, a \in AnalysisOutcomes : arch_analyze(u, a)
    \/ \E u \in DocIds, o \in {"ok", "raise"} : arch_path(u, o)
    \/ \E u \in DocIds, o \in {"ok", "raise"} : arch_move(u, o)
    \/ \E u \in DocIds, o \in {"ok", "raise", "raise_late"} : arch_persist(u, o)
    \/ \E u \in DocIds : arch_publish(u)
    \/ \E u \in DocIds : arch_return(u)
    \/ \E u \in DocIds, o \in {"ok", "move_raise", "commit_raise"} : arch_fail(u, o)
    \/ \E u \in DocIds, o \in {"ok", "raise"} : bg_refresh(u, o)
    \/ \E p \in PassIds, d \in DocIds : idx_load(p, d)
    \/ \E p \in PassIds, o \in EmbedOutcomes : idx_coarse(p, o)
    \/ \E p \in PassIds : idx_cleanup(p)
    \/ \E p \in PassIds, o \in EmbedOutcomes : idx_chunk(p, o)
    \/ \E p \in PassIds, o \in {"ok", "raise"} : idx_commit(p, o)

SpecPipeline == InitPipeline /\ [][NextPipeline]_vars

\* The pipeline with its scheduling: the background thread of an upload, the
\* handlers its publish awaits and the indexing passes are threads and
\* coroutines that run on until they return, so a step that stays possible
\* is taken.
SpecPipelineLive == SpecPipeline /\ WF_vars(NextPipeline)

----------------------------------------------------------------------------
\* C1: a publish never raises to its caller, and when it returns every handler
\* that was registered for the event when publish was called has been invoked
\* and has run to its end, whether it returned or raised.
C1_FanOutIsolation ==
    /\ pub.phase # "raised"
    /\ pub.phase = "returned" =>
         /\ Len(pub.tasks) = Len(pub.registered)
         /\ \A i \in 1..Len(pub.registered) :
              /\ pub.tasks[i].handler = pub.registered[i]
              /\ pub.tasks[i].outcome \in HandlerOutcomes

\* A publish has returned although one of its two or more handlers raised, and
\* a sibling of the raising handler returned.
C1_Witness ==
    /\ pub.phase = "returned"
    /\ \E i, j \in 1..Len(pub.tasks) :
         /\ i # j
         /\ pub.tasks[i].outcome = "raise"
         /\ pub.tasks[j].outcome = "return"

\* Re-indexing: every document has been archived (row COMPLETED, with or
\* without extracted text, file at its final path), nothing is indexed yet;
\* indexing passes are started by hand and refine proposals are made and
\* approved.
ArchivedPath(d) ==
    [dir |-> "final", ym |-> CurrentYM, name |-> NormalizeFilename(UploadName(d)), n |-> 0]

ArchivedRecord(d, text) ==
    PersistedRecord(NewRecord(d),
        [IdleUpload EXCEPT !.target = ArchivedPath(d), !.category = "Finance",
                           !.summary = "S", !.text = text])

InitIndex ==
    /\ subscribers = StartupSubscribers
    /\ pub = NoPub
    /\ docs \in [DocIds -> {ArchivedRecord(d, t) : d \in DocIds, t \in {"long", "None"}}]
    /\ \A d \in DocIds : docs[d].relative_path = ArchivedPath(d)
    /\ chunks = {}
    /\ fs = {[path |-> ArchivedPath(d), file |-> d] : d \in DocIds}
    /\ upl = [u \in DocIds |-> [IdleUpload EXCEPT !.pc = "bg_done", !.result = "True"]]
    /\ ipass = [p \in PassIds |-> IdlePass]
    /\ proposals = [q \in ProposalIds |-> NoProposal]
    /\ eventLog = <<>>
    /\ srch = IdleSearch(1, <<>>, NoTimeRange)
    /\ reranker = ColdReranker

NextIndex ==
    \/ \E p \in PassIds, d \in DocIds : batch_reprocess(p, d)
    \/ \E p \in PassIds, d \in DocIds : idx_load(p, d)
    \/ \E p \in PassIds, o \in EmbedOutcomes : idx_coarse(p, o)
    \/ \E p \in PassIds : idx_cleanup(p)
    \/ \E p \in PassIds, o \in EmbedOutcomes : idx_chunk(p, o)
    \/ \E p \in PassIds, o \in {"ok", "raise"} : idx_commit(p, o)
    \/ \E q \in ProposalIds, d \in DocIds, n \in 1..MaxNodes : scan_and_propose(q, d, n)
    \/ \E q \in ProposalIds : approve_proposal(q)

SpecIndex == InitIndex /\ [][NextIndex]_vars

\* The chunking: documents whose text to embed has 400, 1500, 2000, 2001,
\* 3605, 3700, 5000, 5400 and 5401 characters are indexed by hand.
ChunkedTexts == {"None", "short", "long", "t1900", "t1901", "t3505", "t3600", "t5300", "t5301"}

InitChunk ==
    /\ subscribers = StartupSubscribers
    /\ pub = NoPub
    /\ docs \in [DocIds -> {ArchivedRecord(d, t) : d \in DocIds, t \in ChunkedTexts}]
    /\ \A d \in DocIds : docs[d].relative_path = ArchivedPath(d)
    /\ chunks = {}
    /\ fs = {[path |-> ArchivedPath(d), file |-> d] : d \in DocIds}
    /\ upl = [u \in DocIds |-> [IdleUpload EXCEPT !.pc = "bg_done", !.result = "True"]]
    /\ ipass = [p \in PassIds |-> IdlePass]
    /\ proposals = [q \in ProposalIds |-> NoProposal]
    /\ eventLog = <<>>
    /\ srch = IdleSearch(1, <<>>, NoTimeRange)
    /\ reranker = ColdReranker

NextChunk ==
    \/ \E d \in DocIds : batch_reprocess(1, d)
    \/ \E d \in DocIds : idx_load(1, d)
    \/ \E o \in EmbedOutcomes : idx_coarse(1, o)
    \/ idx_cleanup(1)
    \/ \E o \in EmbedOutcomes : idx_chunk(1, o)
    \/ \E o \in {"ok", "raise"} : idx_commit(1, o)

SpecChunk == InitChunk /\ [][NextChunk]_vars

\* The store: every document is an archived upload without extracted text or
\* the chat report of a day; archives are indexed by hand, embedded outside a
\* pass, refined by proposals, overwritten by the nightly report and deleted.
InitStore ==
    /\ subscribers = StartupSubscribers
    /\ pub = NoPub
    /\ docs \in [DocIds -> {ArchivedRecord(d, "None") : d \in DocIds}
                              \cup {ReportRecord(d) : d \in DocIds}]
    /\ \A d \in DocIds : docs[d].relative_path \in {ArchivedPath(d), ReportPath(d)}
    /\ chunks = {}
    /\ fs = {[path |-> ArchivedPath(d), file |-> d] :
               d \in {e \in DocIds : docs[e].relative_path = ArchivedPath(e)}}
    /\ upl = [u \in DocIds |-> [IdleUpload EXCEPT !.pc = "bg_done", !.result = "True"]]
    /\ ipass = [p \in PassIds |-> IdlePass]
    /\ proposals = [q \in ProposalIds |-> NoProposal]
    /\ eventLog = <<>>
    /\ srch = IdleSearch(1, <<>>, NoTimeRange)
    /\ reranker = ColdReranker

NextStore ==
    \/ \E p \in PassIds, d \in DocIds : batch_reprocess(p, d)
    \/ \E p \in PassIds, d \in DocIds : idx_load(p, d)
    \/ \E p \in PassIds, o \in EmbedOutcomes : idx_coarse(p, o)
    \/ \E p \in PassIds : idx_cleanup(p)
    \/ \E p \in PassIds, o \in EmbedOutcomes : idx_chunk(p, o)
    \/ \E p \in PassIds, o \in {"ok", "raise"} : idx_commit(p, o)
    \/ \E q \in ProposalIds, d \in DocIds, n \in 1..MaxNodes : scan_and_propose(q, d, n)
    \/ \E q \in ProposalIds : approve_proposal(q)
    \/ \E d \in DocIds, o \in {"ok", "unlink_raise", "commit_raise"} : delete_archive(d, o)
    \/ \E d \in DocIds, o \in EmbedOutcomes : embed_document(d, o)
    \/ \E d \in DocIds : delete_document_vector(d)
    \/ \E d \in DocIds : save_as_archive(d)

SpecStore == InitStore /\ [][NextStore]_vars

\* Search: a query with its top_k over a corpus. For every document the
\* corpus tells its database id, the scores of its chunks and of its own
\* embedding to the query (none when it has no such embedding), whether a
\* keyword matches it, its semantic date and its ingestion timestamp. The
\* searches of SpecSearch ask for the time range "2023-11": a document dated
\* 2023-11-15 passes the time filter, one dated 2023-10-01 fails it.
\* The database ids are sparse (rows have been deleted): only the newest
\* document is within RECENT_SPAN of the largest id.
ArchiveId(d) == 1 + (d - 1) * (RECENT_SPAN + 1)

Corpora ==
    {[d \in DocIds |-> [id |-> ArchiveId(d), childs |-> f[d].childs, parent |-> f[d].parent,
                        kw |-> f[d].kw, semantic_date |-> f[d].semantic_date,
                        processed_at |-> now,
                        user_id |-> SearchUser, record |-> TRUE]] :
       f \in [DocIds -> [childs : SUBSET ChunkScores, parent : {0} \cup ParentScores,
                         kw : BOOLEAN,
                         semantic_date : {<<2023, 11, 15>>, <<2023, 10, 1>>}]]}

InitSearch ==
    /\ subscribers = StartupSubscribers
    /\ pub = NoPub
    /\ docs = [d \in DocIds |-> ArchivedRecord(d, "long")]
    /\ chunks = {}
    /\ fs = {[path |-> ArchivedPath(d), file |-> d] : d \in DocIds}
    /\ upl = [u \in DocIds |-> [IdleUpload EXCEPT !.pc = "bg_done", !.result = "True"]]
    /\ ipass = [p \in PassIds |-> IdlePass]
    /\ proposals = [q \in ProposalIds |-> NoProposal]
    /\ eventLog = <<>>
    /\ srch \in {IdleSearch(k, c, Token(<<2023, 11>>)) : k \in 1..MaxTopK, c \in Corpora}
    /\ reranker = ColdReranker

NextSearch ==
    \/ \E vo \in {"ok", "raise"}, ko \in {"ok", "raise"}, lo \in {"ok", "raise"} :
         search_recall(vo, ko, lo)
    \/ search_merge
    \/ search_rerank

SpecSearch == InitSearch /\ [][NextSearch]_vars

\* The searches with a time range: every document is recalled, by the vector
\* path through its one chunk or by the keyword path, and the documents
\* differ in their semantic date (none, "15-11-2023" which is no ISO
\* date, "2023-11-15", "2024-03-02") and in their ingestion timestamp (none,
\* today).
FilterCorpora ==
    {[d \in DocIds |-> [id |-> ArchiveId(d), childs |-> f[d].recall.childs, parent |-> 0,
                        kw |-> f[d].recall.kw, semantic_date |-> f[d].semantic_date,
                        processed_at |-> f[d].processed_at,
                        user_id |-> SearchUser, record |-> TRUE]] :
       f \in [DocIds -> [recall : {[childs |-> {14000}, kw |-> FALSE],
                                   [childs |-> {}, kw |-> TRUE]},
                         semantic_date : {NoDate, <<15, 11, 2023>>, <<2023, 11, 15>>, <<2024, 3, 2>>},
                         processed_at : {NoDate, now}]]}

\* "2024", "2023-11", "2024-03-02", "2024-01~2024-12", "last1d", and no time
\* range.
TimeRanges ==
    {NoTimeRange, Token(<<2024>>), Token(<<2023, 11>>), Token(<<2024, 3, 2>>),
     Between(<<2024, 1>>, <<2024, 12>>), LastDays(1)}

InitFilter ==
    /\ subscribers = StartupSubscribers
    /\ pub = NoPub
    /\ docs = [d \in DocIds |-> ArchivedRecord(d, "long")]
    /\ chunks = {}
    /\ fs = {[path |-> ArchivedPath(d), file |-> d] : d \in DocIds}
    /\ upl = [u \in DocIds |-> [IdleUpload EXCEPT !.pc = "bg_done", !.result = "True"]]
    /\ ipass = [p \in PassIds |-> IdlePass]
    /\ proposals = [q \in ProposalIds |-> NoProposal]
    /\ eventLog = <<>>
    /\ srch \in {IdleSearch(MaxTopK, c, t) : c \in FilterCorpora, t \in TimeRanges}
    /\ reranker = ColdReranker

SpecFilter == InitFilter /\ [][NextSearch]_vars

\* The searches at both sides of the change of the recall width (top_k 9 and
\* 10) and at top_k 1, where the index holds more chunks than three times
\* top_k; every document matches a keyword.
TopKs == {1, 9, 10}

RecallCorpora ==
    {[d \in DocIds |-> [id |-> ArchiveId(d), childs |-> f[d].childs, parent |-> f[d].parent,
                        kw |-> TRUE, semantic_date |-> NoDate, processed_at |-> now,
                        user_id |-> SearchUser, record |-> TRUE]] :
       f \in [DocIds -> [childs : SUBSET ChunkScores, parent : {0} \cup ParentScores]]}

InitRecall ==
    /\ subscribers = StartupSubscribers
    /\ pub = NoPub
    /\ docs = [d \in DocIds |-> ArchivedRecord(d, "long")]
    /\ chunks = {}
    /\ fs = {[path |-> ArchivedPath(d), file |-> d] : d \in DocIds}
    /\ upl = [u \in DocIds |-> [IdleUpload EXCEPT !.pc = "bg_done", !.result = "True"]]
    /\ ipass = [p \in PassIds |-> IdlePass]
    /\ proposals = [q \in ProposalIds |-> NoProposal]
    /\ eventLog = <<>>
    /\ srch \in {IdleSearch(k, c, NoTimeRange) : k \in TopKs, c \in RecallCorpora}
    /\ reranker = ColdReranker

SpecRecall == InitRecall /\ [][NextSearch]_vars

\* The searches of user 1 over documents of two users, each with or without
\* a chunk, a whole-document embedding and a keyword match, and over chunks
\* whose parent record is missing.
OtherUser == 2

OwnerCorpora ==
    {[d \in DocIds |-> [id |-> ArchiveId(d), childs |-> f[d].childs,
                        parent |-> IF f[d].record THEN f[d].parent ELSE 0,
                        kw |-> f[d].record /\ f[d].kw,
                        semantic_date |-> NoDate, processed_at |-> now,
                        user_id |-> f[d].user_id, record |-> f[d].record]] :
       f \in [DocIds -> [childs : {{}, {14000}}, parent : {0} \cup ParentScores,
                         kw : BOOLEAN, user_id : {SearchUser, OtherUser},
                         record : BOOLEAN]]}

InitOwner ==
    /\ subscribers = StartupSubscribers
    /\ pub = NoPub
    /\ docs = [d \in DocIds |-> ArchivedRecord(d, "long")]
    /\ chunks = {}
    /\ fs = {[path |-> ArchivedPath(d), file |-> d] : d \in DocIds}
    /\ upl = [u \in DocIds |-> [IdleUpload EXCEPT !.pc = "bg_done", !.result = "True"]]
    /\ ipass = [p \in PassIds |-> IdlePass]
    /\ proposals = [q \in ProposalIds |-> NoProposal]
    /\ eventLog = <<>>
    /\ srch \in {IdleSearch(MaxTopK, c, NoTimeRange) : c \in OwnerCorpora}
    /\ reranker = ColdReranker

SpecOwner == InitOwner /\ [][NextSearch]_vars

\* The rerank calls of one process, up to MaxCalls of them, with or without
\* candidates; every run of the loading code ends with the ONNX session, with
\* the CrossEncoder or with an exception.
InitRerank ==
    /\ subscribers = StartupSubscribers
    /\ pub = NoPub
    /\ docs = [d \in DocIds |-> ArchivedRecord(d, "long")]
    /\ chunks = {}
    /\ fs = {[path |-> ArchivedPath(d), file |-> d] : d \in DocIds}
    /\ upl = [u \in DocIds |-> [IdleUpload EXCEPT !.pc = "bg_done", !.result = "True"]]
    /\ ipass = [p \in PassIds |-> IdlePass]
    /\ proposals = [q \in ProposalIds |-> NoProposal]
    /\ eventLog = <<>>
    /\ srch = IdleSearch(1, <<>>, NoTimeRange)
    /\ reranker = ColdReranker

NextRerank ==
    \/ \E candidates \in {0, 2} : rr_call(candidates)
    \/ rr_check
    \/ \E outcome \in {"onnx", "torch", "raise"} : rr_load(outcome)
    \/ rr_infer

SpecRerank == InitRerank /\ [][NextRerank]_vars

----------------------------------------------------------------------------
EventsFor(d) == {i \in 1..Len(eventLog) : eventLog[i].archive_id = d}

PassEnded(u) == upl[u].pc \in {"bg_refresh", "bg_done"}

\* C2: whenever an ARCHIVE_COMPLETED event is published, the committed row of
\* the document whose id it carries has status COMPLETED and holds the final
\* filename, category, summary, full text and path of the pass that publishes
\* it, and no event was published for that document before.
C2_EventAfterCommit ==
    [][Len(eventLog') > Len(eventLog) =>
         LET e == eventLog'[Len(eventLog')] IN
         LET d == e.archive_id IN
         /\ Len(eventLog') = Len(eventLog) + 1
         /\ e.name = ARCHIVE_COMPLETED
         /\ upl[d].pc = "arch_publish"
         /\ docs[d].status = COMPLETED
         /\ docs[d].error = "None"
         /\ docs[d].relative_path.dir = "final"
         /\ docs[d].filename = docs[d].relative_path
         /\ docs[d].category \in {"Finance", "Unsorted"}
         /\ EventsFor(d) = {}]_vars

\* The event of a document has been published and its row is COMPLETED.
C2_Witness ==
    \E d \in DocIds :
        /\ EventsFor(d) # {}
        /\ docs[d].status = COMPLETED
        /\ docs[d].relative_path.dir = "final"

FileDirs(u) == {e.path.dir : e \in {x \in fs : x.file = u}}

\* C4, the case of an exception after the move: when step 7 (persistence)
\* raised, the uploaded file is in the _FAILED directory at the end of the pass.
C4_FailedFileInFailedDir ==
    \A u \in DocIds :
        (PassEnded(u) /\ upl[u].excStep = "persist") => FileDirs(u) = {"_FAILED"}

----------------------------------------------------------------------------
PassRowsOf(rows, d) == {r \in ChunksOf(rows, d) : r.src[1] = "pass"}

\* C5: when an indexing pass of a document commits, the chunks of the document
\* that indexing passes have stored are exactly the chunks of this pass: no
\* chunk of an earlier pass remains.
C5_ReplaceExactly ==
    [][\A p \in PassIds :
         (ipass[p].pc = "chunks" /\ ipass'[p].pc = "done")
         => PassRowsOf(chunks', ipass[p].doc) = PassRows(p)]_vars

\* C6: no two chunks of the same parent document have the same chunk index.
C6_UniqueChunkIndex ==
    \A r1 \in chunks, r2 \in chunks :
        (r1.parent = r2.parent /\ r1.chunk_index = r2.chunk_index) => r1 = r2

----------------------------------------------------------------------------
Returned == srch.pc = "done"

\* C7: the list that hybrid_search returns never holds two hits for the same
\* document.
C7_NoDuplicateDocument ==
    Returned =>
        \A i, j \in 1..Len(srch.result) :
            srch.result[i].doc = srch.result[j].doc => i = j

\* C8: every hit that hybrid_search returns has a final score of at least
\* 0.40, on the rerank path and on the fallback path.
C8_ScoreAtLeastThreshold ==
    Returned =>
        \A i \in 1..Len(srch.result) : srch.result[i].score >= RERANK_THRESHOLD

DistinctCandidates ==
    \A i, j \in 1..Len(srch.combined) :
        srch.combined[i].doc = srch.combined[j].doc => i = j

\* C9: the hits are ordered by non-increasing final score (stated for the
\* searches whose candidates are all different documents).
C9_OrderedByFinalScore ==
    (Returned /\ DistinctCandidates) =>
        \A i, j \in 1..Len(srch.result) :
            i < j => srch.result[i].score >= srch.result[j].score

\* The final score of candidate i of combined when the reranker has scored the
\* candidates: its calibrated score after the penalty.
CandidateFinalScore(i) == FinalScore(srch.rerank.logits[i], srch.has_kw[i])

LeftOut ==
    {i \in 1..Len(srch.combined) :
       /\ \A j \in 1..Len(srch.result) : srch.result[j].id # srch.combined[i].id
       /\ CandidateFinalScore(i) >= RERANK_THRESHOLD}

\* C10: at most top_k hits are returned and they are the best candidates by
\* final score: no candidate left out with a final score of at least 0.40
\* scores higher than a returned hit, and none is left out when fewer than
\* top_k hits are returned (stated for the searches whose candidates are all
\* different documents and whose reranker scored them).
C10_TopKBest ==
    (Returned /\ DistinctCandidates /\ srch.rerank.kind = "ok") =>
        /\ Len(srch.result) <= srch.top_k
        /\ \A i \in LeftOut, j \in 1..Len(srch.result) :
             CandidateFinalScore(i) <= srch.result[j].score
        /\ Len(srch.result) < srch.top_k => LeftOut = {}

\* C11: when the embedding call for the query fails, hybrid_search raises to
\* its caller: it never returns a result list, keyword-only or otherwise.
C11_EmbeddingFailureRaises ==
    srch.query_embedding = "raise" => ~Returned

\* C12: a round of the chunk loop whose embedding call fails skips only its
\* chunk: the pass goes on, and it keeps the coarse embedding and the chunks
\* embedded so far for the commit at the end of the pass.
C12_ChunkFailureSkipsChunk ==
    [][\A p \in PassIds :
         (ipass[p].pc = "chunks" /\ ipass[p].next < NumChunks(ipass[p].L)) =>
             /\ ipass'[p].pc = "chunks"
             /\ ipass'[p].coarse = ipass[p].coarse
             /\ ipass[p].nodes \subseteq ipass'[p].nodes]_vars

\* C13: the parent document of every chunk exists: a deleted document leaves
\* no chunk behind, also when an indexing pass of the document was in flight
\* at the deletion and ends after it.
C13_ChunkParentExists ==
    \A r \in chunks : RowExists(docs, r.parent)

C13_Witness ==
    \E p \in PassIds :
        /\ ipass[p].pc = "chunks"
        /\ ipass[p].nodes # {}
        /\ ~RowExists(docs, ipass[p].doc)
        /\ \E d \in DocIds : ChunksOf(chunks, d) # {}

\* C14: for every document, is_vectorized is set if and only if a coarse
\* embedding is stored for it.
C14_FlagIffEmbedding ==
    \A d \in DocIds :
        RowExists(docs, d) => (docs[d].is_vectorized = 1 <=> docs[d].embedding # "None")

----------------------------------------------------------------------------
\* C15: subscribe is idempotent: a publish that follows two or more subscribe
\* calls of the same handler for its event (no other subscribe and no clear
\* in between) invokes that handler exactly once.
C15_SubscribeIdempotent ==
    (pub.phase # "none" /\ pub.before.op = "subscribe" /\ pub.before.repeat
       /\ pub.before.event = pub.event)
    => Cardinality({i \in 1..Len(pub.tasks) :
                      pub.tasks[i].handler = pub.before.handler}) = 1

\* C16: publish returns to its caller only after every handler it dispatched
\* has finished, by returning or by raising.
C16_ReturnsAfterHandlers ==
    pub.phase \in {"returned", "raised"} =>
        \A i \in 1..Len(pub.tasks) : pub.tasks[i].outcome # "pending"

\* A publish with two handlers has returned, the handler dispatched last
\* having raised.
C16_Witness ==
    /\ pub.phase = "returned"
    /\ Len(pub.tasks) >= 2
    /\ pub.tasks[Len(pub.tasks)].outcome = "raise"

\* C17: after clear_subscribers no handler is registered for any event, and a
\* publish made before any later subscribe invokes no handler.
C17_ClearRemovesAll ==
    /\ pub.last.op = "clear" =>
         \A ev \in EventNames : HandlersOf(subscribers, ev) = <<>>
    /\ (pub.phase # "none" /\ pub.before.op = "clear") => pub.tasks = <<>>

\* A clear that found handlers registered has been followed by a publish.
C17_Witness ==
    /\ pub.phase = "returned"
    /\ pub.before.op = "clear"
    /\ pub.before.found
    /\ pub.last.op = "clear"

----------------------------------------------------------------------------
\* The archiver pass of upload u has ended without an exception and its row is
\* COMPLETED.
ArchiverCompleted(u) == docs[u].status = COMPLETED /\ upl[u].excStep = "none"

\* C18: when the publish of FILE_UPLOADED of an upload has returned, exactly
\* one archiver pass has run for the upload; exactly one indexer pass has run
\* and ended when the archiver pass completed, and none when it failed.
C18_ExactlyOnePass ==
    \A u \in DocIds :
        upl[u].pc = "bg_refresh" =>
            /\ upl[u].arch_passes = 1
            /\ ArchiverCompleted(u) =>
                 (upl[u].idx_passes = 1 /\ ipass[u].pc \in {"done", "failed"})
            /\ ~ArchiverCompleted(u) =>
                 (upl[u].idx_passes = 0 /\ ipass[u].pc = "idle")

----------------------------------------------------------------------------
\* The archiver pass of upload u has stored its row after a failed analysis
\* (only then is the stored category "Unsorted") and no exception has reached
\* the failure handler.
StoredUnsorted(u) ==
    /\ upl[u].pc \in {"arch_publish", "arch_wait", "bg_refresh"}
    /\ upl[u].excStep = "none"
    /\ docs[u].category = "Unsorted"

\* After a failed analysis the pass goes on to the target path under the
\* uploaded name; only a later step sends it to the failure handler.
AnalysisFailureGoesOn ==
    \A u \in DocIds :
        upl[u].category = "Unsorted" =>
            /\ upl[u].name = UploadName(u)
            /\ upl[u].pc \in {"arch_path", "arch_move", "arch_persist", "arch_fail"}
            /\ upl[u].pc = "arch_fail" => upl[u].excStep \in {"path", "move", "persist"}

----------------------------------------------------------------------------
\* The final score the claim gives candidate i for its calibrated score s:
\* s / 2 when s < 0.85 and no keyword occurs in its text, else s.
C20_Expected(i) ==
    LET s == sigmoid(srch.rerank.logits[i]) IN
    IF s < 17000 /\ ~srch.has_kw[i] THEN s \div 2 ELSE s

----------------------------------------------------------------------------
\* The score that the merge gave to the candidate with the key id.
AggregationScore(id) == srch.combined[IndexOf(srch.combined, id)].score

\* C21: when the reranker is unavailable (no model, no runtime) or its
\* inference fails, hybrid_search returns, every hit carries the score that
\* the aggregation gave it, and the hits come by falling aggregation score.
C21_RerankFailureKeepsAggregation ==
    (Returned /\ srch.rerank.kind \in {"unavailable", "failed"}) =>
        /\ \A i \in 1..Len(srch.result) :
             srch.result[i].score = AggregationScore(srch.result[i].id)
        /\ \A i, j \in 1..Len(srch.result) :
             i < j => AggregationScore(srch.result[i].id)
                        >= AggregationScore(srch.result[j].id)

----------------------------------------------------------------------------
\* The documents of the corpus that a list of hits or of records names.
VectorDocs(results) == {results[i].doc : i \in 1..Len(results)}
KeywordDocs(records) == {records[i] : i \in 1..Len(records)}

\* The document d of the corpus was recalled and the time filter kept it in
\* every list that held it; it was recalled and the filter removed it.
KeptByFilter(d) ==
    LET id == srch.corpus[d].id IN
    /\ id \in VectorDocs(srch.vector_recall) \cup KeywordDocs(srch.keyword_recall)
    /\ id \in VectorDocs(srch.vector_recall) => id \in VectorDocs(srch.vector_results)
    /\ id \in KeywordDocs(srch.keyword_recall) => id \in KeywordDocs(srch.keyword_results)

RemovedByFilter(d) ==
    LET id == srch.corpus[d].id IN
    /\ id \in VectorDocs(srch.vector_recall) \cup KeywordDocs(srch.keyword_recall)
    /\ id \notin VectorDocs(srch.vector_results)
    /\ id \notin KeywordDocs(srch.keyword_results)

\* C22: a document whose semantic date is 2023-11-15 is in no result of a
\* search with the time range "2024", and the time filter of a search with
\* the time range "2023-11" does not remove it.
C22_TemporalCorrectness ==
    \A d \in DOMAIN srch.corpus :
        srch.corpus[d].semantic_date = <<2023, 11, 15>> =>
            /\ (Returned /\ srch.time_range = Token(<<2024>>)) =>
                 srch.corpus[d].id \notin VectorDocs(srch.result)
            /\ (srch.pc # "start" /\ srch.time_range = Token(<<2023, 11>>)) =>
                 ~RemovedByFilter(d)

\* The document d of the corpus was recalled by a search whose time filter
\* ran: the records of the recalled ids were loaded.
Filtered(d) ==
    /\ srch.pc # "start"
    /\ srch.records = "ok"
    /\ srch.corpus[d].id \in VectorDocs(srch.vector_recall) \cup KeywordDocs(srch.keyword_recall)

\* The answer of the time range of the search for the datetime dt.
DecidedOn(dt) == InRange(dt, RangeStart(srch.time_range), RangeEnd(srch.time_range))

\* C23 as stated: the filter decides on the semantic date whenever the
\* document has one, the ingestion timestamp being ignored (the answer is the
\* one for the same document without a timestamp); on the ingestion timestamp
\* when the document has no semantic date; a document with neither passes.
C23_SemanticDateWheneverPresent ==
    \A d \in DOMAIN srch.corpus :
        Filtered(d) =>
            LET sem == srch.corpus[d].semantic_date IN
            LET ts == srch.corpus[d].processed_at IN
            /\ sem # NoDate =>
                 (KeptByFilter(d) <=> MatchTimeRange(sem, srch.time_range, NoDate))
            /\ (sem = NoDate /\ ts # NoDate) => (KeptByFilter(d) <=> DecidedOn(ts))
            /\ (sem = NoDate /\ ts = NoDate) => KeptByFilter(d)

\* C23, amended: the filter decides on the semantic date whenever the document
\* has one that parses as a date (YYYY-MM-DD or YYYY-MM), whatever the
\* ingestion timestamp; on the ingestion timestamp when the document has no
\* semantic date or one that does not parse; a document with neither passes
\* for every time range.
C23_ParsedSemanticDatePreferred ==
    \A d \in DOMAIN srch.corpus :
        Filtered(d) =>
            LET sem == srch.corpus[d].semantic_date IN
            LET ts == srch.corpus[d].processed_at IN
            /\ ParseDate(sem) # NoDate => (KeptByFilter(d) <=> DecidedOn(ParseDate(sem)))
            /\ (ParseDate(sem) = NoDate /\ ts # NoDate) => (KeptByFilter(d) <=> DecidedOn(ts))
            /\ (ParseDate(sem) = NoDate /\ ts = NoDate) => KeptByFilter(d)

\* A search for "last1d" removed a document dated 2024-03-02 that was ingested
\* today, and kept a document that has neither date.
C23_Witness ==
    /\ srch.time_range = LastDays(1)
    /\ \E d \in DOMAIN srch.corpus :
         /\ Filtered(d) /\ RemovedByFilter(d)
         /\ srch.corpus[d].semantic_date = <<2024, 3, 2>>
         /\ srch.corpus[d].processed_at = now
    /\ \E d \in DOMAIN srch.corpus :
         /\ Filtered(d) /\ KeptByFilter(d)
         /\ srch.corpus[d].semantic_date = NoDate
         /\ srch.corpus[d].processed_at = NoDate

\* C24: a search with a time range returns no document that fails the time
\* filter, whether the vector path or the keyword path recalled it.
C24_NoHitFailsTimeFilter ==
    (Returned /\ srch.time_range # NoTimeRange) =>
        \A d \in DOMAIN srch.corpus :
            srch.corpus[d].id \in VectorDocs(srch.result) =>
                MatchTimeRange(srch.corpus[d].semantic_date, srch.time_range,
                               srch.corpus[d].processed_at)

----------------------------------------------------------------------------
Min(a, b) == IF a < b THEN a ELSE b
STEP == CHUNK_SIZE - OVERLAP

\* The chunks of pass p are those of the claim: the whole text when it has at
\* most 2000 characters, else chunk i from 1800 * i to min(1800 * i + 2000, L)
\* for every i with 1800 * i < L.
ChunksAsStated(p) ==
    LET L == ipass[p].L IN
    LET c == ipass[p].chunks IN
    IF L <= CHUNK_SIZE THEN c = <<[start |-> 0, end |-> L]>>
    ELSE /\ STEP * (Len(c) - 1) < L
         /\ STEP * Len(c) >= L
         /\ \A i \in 0..(Len(c) - 1) :
              c[i + 1] = [start |-> STEP * i, end |-> Min(STEP * i + CHUNK_SIZE, L)]

\* No character of the text lies outside the chunks of pass p.
Covered(p) ==
    LET c == ipass[p].chunks IN
    /\ c[1].start = 0
    /\ c[Len(c)].end = ipass[p].L
    /\ \A i \in 1..(Len(c) - 1) : c[i + 1].start <= c[i].end

\* The characters that chunk i (counted from 1) shares with chunk i + 1.
Overlap(c, i) == Min(c[i].end, c[i + 1].end) - c[i + 1].start

Chunked(p) == ipass[p].pc = "chunks"

\* C25 as stated: the chunks are the windows of the claim, consecutive chunks
\* overlap by 200 characters, every character is covered, and a text of 5000
\* characters gives 3 chunks of which chunk 1 starts at character 1800.
C25_ChunksOverlapBy200 ==
    \A p \in PassIds :
        Chunked(p) =>
            /\ ChunksAsStated(p)
            /\ \A i \in 1..(Len(ipass[p].chunks) - 1) : Overlap(ipass[p].chunks, i) = OVERLAP
            /\ Covered(p)
            /\ ipass[p].L = 5000 =>
                 (Len(ipass[p].chunks) = 3 /\ ipass[p].chunks[2].start = 1800)

\* C25, amended: as stated, but consecutive chunks overlap by 200 characters
\* only when the later chunk has at least 200; a last chunk shorter than 200
\* characters lies wholly within the chunk before it.
C25_ChunksOverlapUpTo200 ==
    \A p \in PassIds :
        Chunked(p) =>
            /\ ChunksAsStated(p)
            /\ \A i \in 1..(Len(ipass[p].chunks) - 1) :
                 LET later == ipass[p].chunks[i + 1] IN
                 Overlap(ipass[p].chunks, i) = Min(OVERLAP, later.end - later.start)
            /\ Covered(p)
            /\ ipass[p].L = 5000 =>
                 (Len(ipass[p].chunks) = 3 /\ ipass[p].chunks[2].start = 1800)

\* A pass has cut a text of 5000 characters into 3 chunks, the last of them
\* shorter than the window.
C25_Witness ==
    \E p \in PassIds :
        /\ Chunked(p)
        /\ ipass[p].L = 5000
        /\ Len(ipass[p].chunks) = 3
        /\ ipass[p].chunks[3] = [start |-> 3600, end |-> 5000]

----------------------------------------------------------------------------
\* The table vector_nodes holds the committed rows: what the query of another
\* session (search_by_vector, lines 115-120) reads at any moment.
PassInFlight(p) == ipass[p].pc \in {"start", "coarse", "cleanup", "chunks"}

\* C26: whatever step a re-indexing pass of a document takes, the committed
\* chunks of the document after the step are those from before the step or
\* exactly the chunks that the pass produced: a query sees the old set or the
\* new set, never an empty, partial or mixed one.
C26_AtomicReplace ==
    [][\A p \in PassIds :
         (PassInFlight(p) /\ ipass'[p] # ipass[p]) =>
             \/ ChunksOf(chunks', ipass[p].doc) = ChunksOf(chunks, ipass[p].doc)
             \/ ChunksOf(chunks', ipass[p].doc) = PassRows(p)]_vars

----------------------------------------------------------------------------
\* The pass of upload u chooses its final path; it moves the file there.
ChoosesPath(u) == upl[u].pc = "arch_path" /\ upl'[u].pc = "arch_move"
MovesFile(u) == upl[u].pc = "arch_move" /\ upl'[u].pc = "arch_persist"

\* C27: the final path that a pass chooses is the computed name or the first
\* of name_1, name_2, ... that does not exist, and the move of the pass never
\* goes to the path of an existing file: no archived file is overwritten.
C27_NeverOverwrites ==
    [][\A u \in DocIds :
         /\ ChoosesPath(u) =>
              /\ ~Exists(fs, upl'[u].target)
              /\ \A k \in 0..(upl'[u].target.n - 1) :
                   Exists(fs, [upl'[u].target EXCEPT !.n = k])
         /\ MovesFile(u) =>
              /\ ~Exists(fs, upl[u].target)
              /\ \A e \in fs : e.path # InboxPath(u) => e \in fs']_vars

----------------------------------------------------------------------------
\* The moves of the processing status that the claim allows.
StatusMoves == {<<PENDING, PROCESSING>>, <<PROCESSING, COMPLETED>>, <<PROCESSING, FAILED>>}

\* The pass of upload u is at extraction, analysis, path or move.
Working(u) == upl[u].pc \in {"arch_extract", "arch_analyze", "arch_path", "arch_move"}

\* C28: within the pass of an upload the committed status of the document
\* only moves PENDING -> PROCESSING -> COMPLETED or PENDING -> PROCESSING ->
\* FAILED: PROCESSING is committed before extraction, analysis or the move
\* start, and a document set to COMPLETED is not set to FAILED afterwards.
C28_StatusMoves ==
    [][\A u \in DocIds :
         /\ docs'[u].status # docs[u].status =>
              <<docs[u].status, docs'[u].status>> \in StatusMoves
         /\ Working(u)' => docs'[u].status = PROCESSING]_vars

----------------------------------------------------------------------------
\* The similarity scores under which document d of the corpus can be recalled:
\* those of its chunks and that of its whole-document embedding.
RecallScores(d) ==
    srch.corpus[d].childs \cup (IF srch.corpus[d].parent = 0 THEN {} ELSE {srch.corpus[d].parent})

SetMax(S) == CHOOSE m \in S : \A x \in S : m >= x

VectorHits(d) ==
    {i \in 1..Len(srch.vector_recall) : srch.vector_recall[i].doc = srch.corpus[d].id}

VectorRecalled == srch.pc # "start" /\ srch.query_embedding = "ok"

\* C29: the vector recall gives a document the score of its best chunk, or
\* the score of its whole-document embedding when that is higher: a document
\* whose best score reaches min_score is one hit with that score, any other
\* document is no hit. (Both queries of the model return all their rows.)
C29_BestScorePerDocument ==
    VectorRecalled =>
        \A d \in DOMAIN srch.corpus :
            IF RecallScores(d) # {} /\ SetMax(RecallScores(d)) >= min_score
            THEN /\ Cardinality(VectorHits(d)) = 1
                 /\ \A i \in VectorHits(d) :
                      srch.vector_recall[i].score = SetMax(RecallScores(d))
            ELSE VectorHits(d) = {}

\* One document was recalled through two chunks and carries the score of the
\* better one; another was recalled through a chunk below min_score and
\* through its own embedding, and carries the score of the embedding.
C29_Witness ==
    /\ VectorRecalled
    /\ \E d \in DOMAIN srch.corpus :
         /\ srch.corpus[d].childs = {8800, 14000}
         /\ \E i \in VectorHits(d) : srch.vector_recall[i].score = 14000
    /\ \E d \in DOMAIN srch.corpus :
         /\ srch.corpus[d].childs = {8800} /\ srch.corpus[d].parent = 10000
         /\ \E i \in VectorHits(d) : srch.vector_recall[i].score = 10000

\* C30: the recall queries of one search fetch at most top_k * 3 rows each
\* when top_k < 10 and at most top_k * 2 when top_k >= 10: the chunk
\* candidates of the chunk index, the whole-document candidates of the
\* document index and the keyword candidates.
Recalled == srch.pc # "start"

Width == IF srch.top_k < 10 THEN srch.top_k * 3 ELSE srch.top_k * 2

C30_RecallWidths ==
    Recalled =>
        /\ srch.fetched.chunks <= Width
        /\ srch.fetched.parents <= Width
        /\ srch.fetched.keywords <= Width

\* C30 as the code has it: the whole-document query and the keyword query are
\* limited to the recall width and the vector recall yields at most that many
\* documents, while the chunk query is limited to three times the recall
\* width (top_k * 9 below ten, top_k * 6 from ten on).
C30_ChunkQueryThreefold ==
    Recalled =>
        /\ srch.limits = [chunks |-> 3 * Width, parents |-> Width, keywords |-> Width]
        /\ srch.fetched.chunks <= srch.limits.chunks
        /\ srch.fetched.parents <= srch.limits.parents
        /\ srch.fetched.keywords <= srch.limits.keywords
        /\ Len(srch.vector_recall) <= Width
        /\ Len(srch.keyword_recall) <= Width

\* A search with top_k 1 has fetched four chunks, more than its recall width.
C30_Witness ==
    /\ Recalled
    /\ srch.top_k = 1
    /\ srch.fetched.chunks = 4

\* C31: a chunk whose parent document does not exist is never surfaced: no
\* hit of search_by_vector or of hybrid_search refers to a document id for
\* which no document record exists when the search queries the tables.
RecordOf(id) == {d \in DOMAIN srch.corpus : srch.corpus[d].id = id}

HitDocs ==
    {srch.vector_recall[i].doc : i \in 1..Len(srch.vector_recall)}
    \cup {srch.result[i].doc : i \in 1..Len(srch.result)}

C31_MissingParentNeverSurfaced ==
    \A id \in HitDocs : \E d \in RecordOf(id) : srch.corpus[d].record

\* A search has ended with a hit while the index holds a chunk of a document
\* without record.
C31_Witness ==
    /\ srch.pc = "done"
    /\ srch.result # <<>>
    /\ \E d \in DOMAIN srch.corpus :
          ~srch.corpus[d].record /\ srch.corpus[d].childs # {}

\* C33: hybrid_search for a user returns only documents of that user,
\* whichever path recalled them: a child chunk, the whole-document embedding
\* or the keywords.
C33_OnlyOwnDocuments ==
    \A i \in 1..Len(srch.result) :
        \A d \in RecordOf(srch.result[i].doc) : srch.corpus[d].user_id = SearchUser

\* C32: across the rerank calls of one process the model is loaded at most
\* once and never before the first rerank call, and every call after the
\* first makes no load attempt.
C32_LoadedOnce ==
    /\ reranker.loads <= 1
    /\ reranker.attempts <= 1
    /\ reranker.attempts > 0 => reranker.calls > 0

\* C32 as the code has it: the model is loaded at most once and not before
\* the first rerank call; once it is loaded no call makes a load attempt and
\* the model stays; a call with candidates that finds no model makes one.
C32_LoadedOnceWhenLoaded ==
    /\ [](reranker.loads <= 1)
    /\ [](reranker.attempts > 0 => reranker.calls > 0)
    /\ [][reranker.model # "none" =>
            /\ reranker'.attempts = reranker.attempts
            /\ reranker'.model = reranker.model]_vars
    /\ [][(reranker.pc = "ensure" /\ reranker.model = "none") => reranker'.pc = "load"]_vars
    /\ [][reranker.pc = "load" => reranker'.attempts = reranker.attempts + 1]_vars

\* A call has ended that found the model loaded by an earlier call, after a
\* load attempt that raised.
C32_Witness ==
    /\ reranker.loads = 1
    /\ reranker.attempts = 2
    /\ reranker.calls = 3
    /\ reranker.pc = "idle"
    /\ reranker.result = "scores"

\* C34: after every cycle of clear_subscribers() and load_plugins(), the first
\* one and every later one in the same process, the handlers of the plugins
\* are registered exactly once: the archiver for FILE_UPLOADED and the
\* indexer for ARCHIVE_COMPLETED, so an upload published after a reload has
\* its archiver pass.
Registrations(ev, h) ==
    Cardinality({i \in 1..Len(HandlersOf(subscribers, ev)) :
                   HandlersOf(subscribers, ev)[i] = h})

C34_ReloadRegistersOnce ==
    /\ Registrations(FILE_UPLOADED, "archiver") = 1
    /\ Registrations(ARCHIVE_COMPLETED, "vectorizer") = 1
    /\ \A u \in DocIds : upl[u].pc = "bg_refresh" => upl[u].arch_passes >= 1

\* C35: subscribe identifies a handler by its __name__: the handlers
\* registered for an event have pairwise different names, a handler whose
\* name a registered handler carries is not added, and so a publish invokes
\* at most one handler of a name.
NamesDiffer(hs) ==
    \A i, j \in 1..Len(hs) : i # j => HandlerName(hs[i]) # HandlerName(hs[j])

TaskHandlers == [i \in 1..Len(pub.tasks) |-> pub.tasks[i].handler]

C36_ProcessingEnds ==
    \A u \in DocIds :
        (docs[u].status = PROCESSING) ~> (docs[u].status \in {COMPLETED, FAILED})

HasMoved(v) ==
    /\ upl[v].target.dir = "final"
    /\ upl[v].pc \notin {"arch_path", "arch_move"}
    /\ upl[v].excStep \notin {"path", "move"}

\* C38: no two archiver passes move their files to the same final path, also
\* when two uploads are processed at the same time and resolve to the same
\* directory and filename.
C38_DistinctFinalPaths ==
    \A u, v \in DocIds :
        (u # v /\ HasMoved(u) /\ HasMoved(v)) => upl[u].target # upl[v].target

\* The date the time filter reads of document d: the semantic date when it
\* parses, else the ingestion timestamp (NoDate when the document has neither).
EffectiveDate(d) ==
    IF ParseDate(srch.corpus[d].semantic_date) # NoDate
    THEN ParseDate(srch.corpus[d].semantic_date)
    ELSE srch.corpus[d].processed_at

====
